---- MODULE Spec2Model ----
(***************************************************************************)
(* MediaSync: the session/resource orchestration layer that bridges        *)
(* mediasoup producers to HLS through ffmpeg.                              *)
(*                                                                         *)
(* Three specifications share this module:                                 *)
(*   Spec         the composite path: signaling/websocket.ts driving       *)
(*                ffmpeg/combinedHLSBridge.ts (setupCombinedHlsStream);    *)
(*   SpecProducer the per-producer path: the signaling layer of            *)
(*                unnamed/part_002 driving setupHlsFfmpegBridge of         *)
(*                unnamed/part_001;                                        *)
(*   SpecGate     the readiness gate waitForSdpReady on its own, with its  *)
(*                clock and the descriptor files as inputs.                *)
(***************************************************************************)
EXTENDS Integers, Sequences, FiniteSets, TLC

\* ------------------------------------------------------------------ bounds
NumClients == 2        \* websocket connections the model follows
MaxProducers == 2      \* produce events in one behaviour
MaxGens == 2           \* composite rebuild generations that own resources at once
MaxRetries == 1        \* readiness retries pending at once
NumGateFiles == 2      \* descriptor files handed to the gate in SpecGate
MaxInputs == 5         \* participants of the rebuild whose arguments SpecLayout builds
MaxSegments == 2       \* segment files of a session directory in SpecPublish
MaxVersions == 2       \* times the transcoder rewrites one file in SpecPublish
MaxTicks == 2          \* ticks of the publish timer in SpecPublish
MaxCalls == 3          \* calls of the composite module's functions in SpecComposite
MaxCompProducers == 2  \* producers handed to the composite module in SpecComposite
MaxTransports == 2             \* WebRtcTransports created over a run
MaxSigProducers == 2           \* producers created over a run
MaxInFlight == 1               \* produce handlers suspended at the same time
MaxLiveSessions == 3           \* per-producer sessions started over a run

\* ------------------------------------------------------- program constants
PollMs == 150                  \* setTimeout(check, 150)
DefaultGateTimeoutMs == 8000   \* waitForSdpReady(sdpPaths, timeoutMs = 8000)
RebuildGateTimeoutMs == 10000  \* waitForSdpReady(inputs, 10000)
RetryDelayMs == 2000           \* setTimeout(() => setupCombinedHlsStream(...), 2000)
maxParticipants == 16          \* config.maxParticipants
VideoPayloadType == 96         \* a dynamic RTP payload type, as the router assigns
OutputWidth == 1280            \* config.output.width
OutputHeight == 720            \* config.output.height
OutputFps == 60                \* config.output.fps

Clients == 1..NumClients
ProducerIds == 1..MaxProducers
GenIds == 1..MaxGens

VARIABLES
  \* --- signaling/websocket.ts
  conn,                      \* per websocket connection: "open", "gone"
  producers,                 \* the producers map: id -> [client, kind] (client 0: absent)
  nextProducerId,            \* the router's next producer id
  cpKeys,                    \* keys of clientProducers, in insertion order
  sessionObj,                \* the ProducerSession object of each client
  pendingUpdates,            \* armed setTimeout(updateCombinedStream, 1000) timers
  \* --- ffmpeg/combinedHLSBridge.ts
  isUpdatingCombinedStream,  \* the single-flight flag
  combinedHlsFfmpegProcess,  \* the module's process reference (0: null)
  combinedResources,         \* producerResources.get("combined-stream") (0: absent)
  gens,                      \* per rebuild generation: its locals and what it created
  pendingRetries,            \* armed retry timers, each with the sessions map it passes
  sdpFiles,                  \* hls/combined/input_<i>.sdp
  tdLog,                     \* the teardown steps the step just taken issued, in order
  lastOutcome,               \* how the step just taken left a rebuild: "none" (it did
                             \* not), "dropped", "empty", "novideo", "error", "nocodec" (an
                             \* error for want of a usable codec), "timeout",
                             \* "retry-timeout" (the gate of a retry timed out), "spawned"
  soleLeft,                  \* history: the sole contributor of an Active composite left
  \* --- unnamed/part_001, unnamed/part_002
  pConn,                     \* per connection: "open", "gone"
  pEntry,                    \* clientProducers of part_002: client -> [video, audio]
  pProducers,                \* the producers of part_002: in the maps? still open?
  pNextId,                   \* the router's next producer id
  producerResources,         \* the registry: producer id -> session (0: absent)
  pSessions,                 \* bridge invocations: locals and what each created
  \* --- waitForSdpReady on its own
  gPc,                       \* "idle", "polling", "resolved", "rejected"
  gElapsed,                  \* Date.now() - start, in ms
  gTimeout,                  \* timeoutMs
  gFiles,                    \* the descriptor files at sdpPaths
  gSettled,                  \* how many times resolve/reject were called
  gEverValid,                \* history: the file has declared a non-zero width and height
  \* --- buildFilterComplex and the argument vector on their own
  lP,                        \* numParticipants
  lV,                        \* inputs.length
  lAudio,                    \* the input indices whose session also has audio
  lPc,                       \* "idle", "called", "twice", "args"
  lFilter,                   \* what buildFilterComplex returned
  lFilter2,                  \* what a second call with the same arguments returned
  lArgs,                     \* ffmpegArgs
  \* --- createSdpFile and the descriptor files on their own
  sdpVideo,                  \* the video codec of the session, or NoCodec
  sdpAudio,                  \* the audio codec of the session, or NoCodec
  sdpPort,                   \* the RTP port drawn
  sdpPc,                     \* "idle", "created", or the file written
  sdpArg,                    \* the codec createSdpFile was called on
  sdpText,                   \* the text returned or written
  \* --- a publish timer on its own
  pubType,                   \* the session type: "producer", "composite", "combined"
  pubSrc,                    \* the session directory
  pubLive,                   \* the live directory
  pubTicks,                  \* ticks of the timer so far
  \* --- compositeFFmpegBridge on its own
  compositeSession,          \* the module's global: the session, or none
  compProcs,                 \* processes by spawning call: "none", "alive", "killed", "exited"
  compTimers,                \* publish timers by arming call: "none", "set", "cleared"
  compRelays,                \* relay transport and consumer by creating call: "none", "open", "closed"
  compRegistry,              \* producerResources["composite-stream"]
  compCalls,                 \* the calls of the exported functions and where each stands
  \* --- signaling/websocket.ts with its transports and its three maps
  sigConn,                   \* per websocket connection: "open", "gone"
  sigSend,                   \* transports.get(id).send (0: none)
  sigTransport,              \* the WebRtcTransport objects: their client, closed or not
  sigProducerObj,            \* the Producer objects: client, kind, transport, closed or not
  sigProducers,              \* the keys of the producers map
  sigProducerToClient,       \* the producerToClient map (0: no entry)
  sigProducerKinds,          \* the producerKinds map ("none": no entry)
  sigClientProducers,        \* clientProducers: per client its entry, if present
  sigCalls,                  \* the produce handlers suspended at await send.produce(...)
  sigTimers,                 \* the setTimeout(updateCombinedStream, 1000) armed so far
  \* --- the publish timers of several per-producer sessions
  lvState,                   \* per session: "none", "alive", "released"
  lvSrc,                     \* per session: its directory hls/<sessionId>
  lvLive                     \* the directory hls/live

combinedVars == <<conn, producers, nextProducerId, cpKeys, sessionObj, pendingUpdates,
                  isUpdatingCombinedStream, combinedHlsFfmpegProcess, combinedResources,
                  gens, pendingRetries, sdpFiles, tdLog, lastOutcome, soleLeft>>
producerVars == <<pConn, pEntry, pProducers, pNextId, producerResources, pSessions>>
gateVars == <<gPc, gElapsed, gTimeout, gFiles, gSettled, gEverValid>>
layoutVars == <<lP, lV, lAudio, lPc, lFilter, lFilter2, lArgs>>
sdpVars == <<sdpVideo, sdpAudio, sdpPort, sdpPc, sdpArg, sdpText>>
pubVars == <<pubType, pubSrc, pubLive, pubTicks>>
compVars == <<compositeSession, compProcs, compTimers, compRelays, compRegistry, compCalls>>
sigVars == <<sigConn, sigSend, sigTransport, sigProducerObj, sigProducers,
             sigProducerToClient, sigProducerKinds, sigClientProducers, sigCalls, sigTimers>>
liveVars == <<lvState, lvSrc, lvLive>>
vars == <<combinedVars, producerVars, gateVars, layoutVars, sdpVars, pubVars, compVars, sigVars,
          liveVars>>

\* ------------------------------------------------------------ small helpers
Min(a, b) == IF a < b THEN a ELSE b

RECURSIVE SeqOfSet(_)
\* the elements of a set of integers, ascending
SeqOfSet(S) ==
  IF S = {} THEN <<>>
  ELSE LET m == CHOOSE x \in S : \A y \in S : x <= y
       IN <<m>> \o SeqOfSet(S \ {m})

\* ============================================================ descriptor files
(* A descriptor file, as far as waitForSdpReady reads it: whether it exists,  *)
(* its a=framesize:<pt> <w>-<h> line if it has one, and the payload formats   *)
(* listed on its m=video line.                                                *)
NoFile == [exists |-> FALSE, hasFs |-> FALSE, fsPt |-> 0, fsW |-> 0, fsH |-> 0, fmts |-> <<>>]

VideoSdp(pt, w, h) ==
  [exists |-> TRUE, hasFs |-> TRUE, fsPt |-> pt, fsW |-> w, fsH |-> h, fmts |-> <<pt>>]

PlainSdp(fmts) ==
  [exists |-> TRUE, hasFs |-> FALSE, fsPt |-> 0, fsW |-> 0, fsH |-> 0, fmts |-> fmts]

\* content.match(/a=framesize:(\d+)\s+(\d+)/) || content.match(/m=video \d+ [^ ]+ (\d+) (\d+)/):
\* on "a=framesize:<pt> <w>-<h>" the two groups are <pt> and <w>; on the media
\* line they are the first two payload formats. <<>> stands for null.
SizeMatch(f) ==
  IF f.hasFs THEN <<f.fsPt, f.fsW>>
  ELSE IF Len(f.fmts) >= 2 THEN <<f.fmts[1], f.fmts[2]>>
  ELSE <<>>

\* one iteration of check()'s loop: does this path leave allReady true?
FileReady(f) ==
  /\ f.exists
  /\ SizeMatch(f) /= <<>>
  /\ LET w == SizeMatch(f)[1]
         h == SizeMatch(f)[2]
     IN ~(w = 0 \/ h = 0)

AllReady(files) == \A i \in DOMAIN files : FileReady(files[i])

\* (Date.now() - start > timeoutMs)
TimedOut(elapsed, timeoutMs) == elapsed > timeoutMs

\* the file exists and declares a non-zero width and height: in its frame-size
\* annotation, or else in the two fields of its media line
DeclaresSize(f) ==
  /\ f.exists
  /\ IF f.hasFs THEN f.fsW /= 0 /\ f.fsH /= 0
     ELSE Len(f.fmts) >= 2 /\ f.fmts[1] /= 0 /\ f.fmts[2] /= 0

\* ================================================================== SpecGate
GateContents ==
  {NoFile, PlainSdp(<<VideoPayloadType>>), PlainSdp(<<VideoPayloadType, 97>>)}
  \cup {VideoSdp(pt, d[1], d[2]) : pt \in {0, VideoPayloadType},
                                  d \in {<<640, 360>>, <<640, 0>>, <<0, 360>>}}

GateIdle ==
  /\ gPc = "idle"
  /\ gElapsed = 0
  /\ gSettled = 0
  /\ gTimeout \in {DefaultGateTimeoutMs, RebuildGateTimeoutMs}
  /\ gFiles \in [1..NumGateFiles -> GateContents]
  /\ gEverValid = [i \in 1..NumGateFiles |-> DeclaresSize(gFiles[i])]

\* check(): resolve, reject, or re-arm the 150 ms timer
Check(elapsed) ==
  IF AllReady(gFiles)
  THEN /\ gPc' = "resolved"
       /\ gSettled' = gSettled + 1
  ELSE IF TimedOut(elapsed, gTimeout)
  THEN /\ gPc' = "rejected"
       /\ gSettled' = gSettled + 1
  ELSE /\ gPc' = "polling"
       /\ gSettled' = gSettled

\* waitForSdpReady(sdpPaths, timeoutMs): the promise executor runs check() at once
GateStart ==
  /\ gPc = "idle"
  /\ Check(0)
  /\ UNCHANGED <<gElapsed, gTimeout, gFiles, gEverValid>>
  /\ UNCHANGED <<combinedVars, producerVars, layoutVars, sdpVars, pubVars, compVars, sigVars, liveVars>>

\* the 150 ms timer fires and check() runs again
GatePollTimer ==
  /\ gPc = "polling"
  /\ gElapsed' = gElapsed + PollMs
  /\ Check(gElapsed + PollMs)
  /\ UNCHANGED <<gTimeout, gFiles, gEverValid>>
  /\ UNCHANGED <<combinedVars, producerVars, layoutVars, sdpVars, pubVars, compVars, sigVars, liveVars>>

\* the file system: some writer replaces or removes a descriptor while the gate polls
GateFileWrite(i, c) ==
  /\ gPc = "polling"
  /\ gFiles[i] /= c
  /\ gFiles' = [gFiles EXCEPT ![i] = c]
  /\ gEverValid' = [gEverValid EXCEPT ![i] = @ \/ DeclaresSize(c)]
  /\ UNCHANGED <<gPc, gElapsed, gTimeout, gSettled>>
  /\ UNCHANGED <<combinedVars, producerVars, layoutVars, sdpVars, pubVars, compVars, sigVars, liveVars>>

GateNext ==
  \/ GateStart
  \/ GatePollTimer
  \/ \E i \in 1..NumGateFiles, c \in GateContents : GateFileWrite(i, c)

\* ============================================ ffmpeg/combinedHLSBridge.ts
EmptySession == [video |-> 0, audio |-> 0]
NoProducer == [client |-> 0, kind |-> "none"]

(* One rebuild generation: the locals of one setupCombinedHlsStream call      *)
(* (sessions, the loop position, inputIndex, audioInputs.length) and what it  *)
(* created: open plain transports, open consumers, running keyframe           *)
(* intervals, the ffmpeg process and the publish interval.                    *)
(*   st: "free", "video" (awaiting the video transport/consumer of            *)
(*   snap[idx]), "audio" (awaiting its audio transport/consumer), "gate"      *)
(*   (waitForSdpReady polling), "done" (the call has returned).               *)
(*   proc: "none", "running", "killed" (SIGTERM sent, exit not yet            *)
(*   delivered), "exited"; nVideo and nAudio stay with a spawned process as   *)
(*   the number of video and audio inputs of its argument vector.             *)
(*   ev: what the call has done so far, in order: "sdp" for a descriptor      *)
(*   written, "gate" for waitForSdpReady resolved, "spawn", "timer" for the   *)
(*   publish interval, "registry" for producerResources.set; kept with a      *)
(*   spawned process.                                                         *)
(*   np: numParticipants, fixed when the call starts; kept with a spawned     *)
(*   process as the count its layout was chosen for.                          *)
(*   inputs: the clients whose video producer the call consumes as a video    *)
(*   input; kept with a spawned process.                                      *)
(* An entry 0 of snap is a session object that has left clientProducers with  *)
(* both slots empty: it never holds a producer again.                         *)
FreeGen ==
  [st |-> "free", snap |-> <<>>, idx |-> 0, nVideo |-> 0, nAudio |-> 0,
   tOpen |-> 0, cOpen |-> 0, kf |-> 0, proc |-> "none", pub |-> FALSE,
   isRetry |-> FALSE, ev |-> <<>>, inputs |-> {}, np |-> 0]

\* the session object a snapshot entry refers to, read at the time of the visit
Sess(c) == IF c = 0 THEN EmptySession ELSE sessionObj[c]

\* Math.ceil(Math.sqrt(n))
CeilSqrt(n) == CHOOSE k \in 1..n : k * k >= n /\ (k - 1) * (k - 1) < n

\* Math.ceil(a / b)
CeilDiv(a, b) == (a + b - 1) \div b

\* config.gridLayout, by getLayoutConfig(pCount)
getLayoutConfig(pCount) ==
  IF pCount = 1 THEN [width |-> 1280, height |-> 720]
  ELSE IF pCount <= 2 THEN [width |-> 640, height |-> 720]
  ELSE IF pCount <= 4 THEN [width |-> 640, height |-> 360]
  ELSE [width |-> 426, height |-> 240]

GridCols(n) == IF n > 1 THEN CeilSqrt(n) ELSE 1
GridRows(n) == IF n > 1 THEN CeilDiv(n, GridCols(n)) ELSE 1
CellWidth(n) == getLayoutConfig(n).width \div GridCols(n)
CellHeight(n) == getLayoutConfig(n).height \div GridRows(n)

\* Math.min(sessions.size, config.maxParticipants)
NumParticipants(snap) == Min(Len(snap), maxParticipants)

\* the video descriptor the rebuild writes: createSdpFile(...) + a=framesize + a=framerate
WrittenVideoSdp(snap) ==
  VideoSdp(VideoPayloadType, CellWidth(NumParticipants(snap)),
           CellHeight(NumParticipants(snap)))

\* the guard left out: every request is let in
BusyNever == FALSE

\* if (isUpdatingCombinedStream) return;
Busy == isUpdatingCombinedStream

\* the flag cleared at the end of the try block instead of in a finally: the
\* early returns and the catch leave it set
FlagClearedAtEndOfTry(outcome) == outcome /= "spawned"

\* finally { isUpdatingCombinedStream = false; }: runs on every path out of the try
FinallyFlag(outcome) == FALSE

\* a retry that is not itself retried
ScheduleRetryOnce(retries, sessions, isRetry) ==
  IF isRetry THEN retries
  ELSE Append(retries, [sessions |-> sessions, delay |-> RetryDelayMs])

\* setTimeout(() => setupCombinedHlsStream({ sessions, ... }), 2000) in the gate's catch
ScheduleRetry(retries, sessions, isRetry) ==
  Append(retries, [sessions |-> sessions, delay |-> RetryDelayMs])

(* The bridge's state as one record, so that the body of the rebuild reads as *)
(* the sequence of updates the code makes.                                    *)
BridgeState ==
  [gens |-> gens, upd |-> isUpdatingCombinedStream, proc |-> combinedHlsFfmpegProcess,
   res |-> combinedResources, files |-> sdpFiles, log |-> <<>>,
   retries |-> pendingRetries, outcome |-> "none"]

\* combinedHlsFfmpegProcess.kill('SIGTERM'); combinedHlsFfmpegProcess = null;
KillExisting(b) ==
  IF b.proc = 0 THEN b
  ELSE [b EXCEPT !.gens[b.proc].proc = IF @ = "running" THEN "killed" ELSE @,
                 !.proc = 0,
                 !.log = Append(@, "kill")]

\* consumers.forEach(close); transports.forEach(close); clearInterval; delete
ReleaseRegistered(b) ==
  IF b.res = 0 THEN b
  ELSE [b EXCEPT !.gens[b.res].cOpen = 0,
                 !.gens[b.res].tOpen = 0,
                 !.gens[b.res].pub = FALSE,
                 !.res = 0,
                 !.log = @ \o <<"consumers", "transports", "timer">>]

Teardown(b) == ReleaseRegistered(KillExisting([b EXCEPT !.log = <<>>]))

\* the first c.close() of the forEach of line 198 throws: the statements after
\* it in the try block do not run (no transport closed, no clearInterval, no
\* delete), the catch logs and the finally clears the flag
TeardownThrows(b) ==
  LET b1 == KillExisting([b EXCEPT !.log = <<>>])
  IN [b1 EXCEPT !.log = Append(@, "close-threw")]

\* the call returns: its locals die and the finally block runs. A return
\* without a process leaves nothing of the call behind but what it created.
Return(b, g, outcome) ==
  [b EXCEPT !.gens[g].st = "done",
            !.gens[g].snap = <<>>,
            !.gens[g].idx = 0,
            !.gens[g].isRetry = FALSE,
            !.gens[g].nVideo = IF outcome = "spawned" THEN @ ELSE 0,
            !.gens[g].nAudio = IF outcome = "spawned" THEN @ ELSE 0,
            !.gens[g].ev = IF outcome = "spawned" THEN @ ELSE <<>>,
            !.gens[g].inputs = IF outcome = "spawned" THEN @ ELSE {},
            !.gens[g].np = IF outcome = "spawned" THEN @ ELSE 0,
            !.upd = FinallyFlag(outcome),
            !.outcome = outcome]

\* a variant that records the registry entry before it spawns
RegisterAndSpawn(b, g) ==
  Return([b EXCEPT !.gens[g].proc = "running",
                   !.gens[g].pub = TRUE,
                   !.gens[g].ev = @ \o <<"registry", "spawn", "timer">>,
                   !.proc = g,
                   !.res = g],
         g, "spawned")

\* spawn, the handlers, the publish interval and producerResources.set
SpawnAndRegister(b, g) ==
  Return([b EXCEPT !.gens[g].proc = "running",
                   !.gens[g].pub = TRUE,
                   !.gens[g].ev = @ \o <<"spawn", "timer", "registry">>,
                   !.proc = g,
                   !.res = g],
         g, "spawned")

\* waitForSdpReady has resolved
GatePassed(b, g) == SpawnAndRegister([b EXCEPT !.gens[g].ev = Append(@, "gate")], g)

\* await waitForSdpReady(inputs, 10000): its first check() runs at once
GateFirstCheck(b, g) ==
  IF AllReady(b.files) THEN GatePassed(b, g)
  ELSE [b EXCEPT !.gens[g].st = "gate"]

\* the head of the for loop, from the entry after idx, up to the next await
NextInput(b, g) ==
  LET r == b.gens[g]
      withVideo == {i \in (r.idx + 1)..Len(r.snap) : Sess(r.snap[i]).video /= 0}
  IN IF withVideo /= {} /\ r.nVideo < maxParticipants
     THEN [b EXCEPT !.gens[g].st = "video",
                    !.gens[g].idx = CHOOSE i \in withVideo : \A j \in withVideo : i <= j]
     ELSE IF r.nVideo = 0 THEN Return(b, g, "novideo")
     ELSE GateFirstCheck(b, g)

\* the video half of one iteration, resumed after its awaits. The transport is
\* created first; consume rejects when the router refuses it, and reading the
\* producer throws when the session has lost it meanwhile. With no usable codec
\* (codecOk false: rtpParameters.codecs is empty, or the router can consume
\* none of them) selectedCodec.mimeType throws or consume rejects: either way
\* control goes to the catch of the rebuild.
VideoInput(b, g, routerOk, codecOk) ==
  LET r == b.gens[g]
      s == Sess(r.snap[r.idx])
      b1 == [b EXCEPT !.gens[g].tOpen = @ + 1]
  IN IF ~routerOk \/ s.video = 0 THEN Return(b1, g, "error")
     ELSE IF ~codecOk THEN Return(b1, g, "nocodec")
     ELSE LET b2 == [b1 EXCEPT !.gens[g].cOpen = @ + 1,
                               !.gens[g].kf = @ + 1,
                               !.gens[g].ev = Append(@, "sdp"),
                               !.gens[g].inputs = @ \cup {r.snap[r.idx]},
                               !.files = Append(@, WrittenVideoSdp(r.snap))]
          IN IF s.audio /= 0 THEN [b2 EXCEPT !.gens[g].st = "audio"]
             ELSE NextInput([b2 EXCEPT !.gens[g].nVideo = @ + 1], g)

\* the audio half of the iteration, resumed after its awaits
AudioInput(b, g, routerOk) ==
  LET r == b.gens[g]
      s == Sess(r.snap[r.idx])
      b1 == [b EXCEPT !.gens[g].tOpen = @ + 1]
  IN IF ~routerOk \/ s.audio = 0 THEN Return(b1, g, "error")
     ELSE NextInput([b1 EXCEPT !.gens[g].cOpen = @ + 1,
                               !.gens[g].ev = Append(@, "sdp"),
                               !.gens[g].nAudio = @ + 1,
                               !.gens[g].nVideo = @ + 1], g)

\* a later check() of the gate, and the catch around the await
GateCheck(b, g, elapsed) ==
  IF AllReady(b.files) THEN GatePassed(b, g)
  ELSE IF elapsed
  THEN Return([b EXCEPT !.retries = ScheduleRetry(@, b.gens[g].snap, b.gens[g].isRetry)],
              g, IF b.gens[g].isRetry THEN "retry-timeout" ELSE "timeout")
  ELSE b

FreeSlots(gs) == {g \in GenIds : gs[g].st = "free"}

\* setupCombinedHlsStream({ sessions, ... }) up to its first await
Setup(b, sessions, isRetry, closeThrows) ==
  IF Busy THEN [b EXCEPT !.outcome = "dropped"]
  ELSE IF closeThrows
  THEN [TeardownThrows([b EXCEPT !.upd = TRUE]) EXCEPT !.upd = FinallyFlag("error"),
                                                      !.outcome = "error"]
  ELSE LET b1 == Teardown([b EXCEPT !.upd = TRUE])
           b2 == [b1 EXCEPT !.files = <<>>]
       IN IF Len(sessions) = 0
          THEN [b2 EXCEPT !.upd = FinallyFlag("empty"), !.outcome = "empty"]
          ELSE LET g == CHOOSE x \in FreeSlots(b2.gens) :
                          \A y \in FreeSlots(b2.gens) : x <= y
               IN NextInput([b2 EXCEPT !.gens[g] = [FreeGen EXCEPT !.st = "video",
                                                                   !.snap = sessions,
                                                                   !.np = NumParticipants(sessions),
                                                                   !.isRetry = isRetry],
                                       !.outcome = "none"], g)

\* a generation that owns nothing any more and that nothing refers to
Collectable(r) ==
  /\ r.st = "done"
  /\ r.tOpen = 0 /\ r.cOpen = 0 /\ r.kf = 0
  /\ ~r.pub
  /\ r.proc \in {"none", "exited"}

\* the bridge's variables after a step; slots of finished generations are reused
Commit(b) ==
  /\ gens' = [g \in GenIds |->
                IF Collectable(b.gens[g]) /\ g /= b.proc /\ g /= b.res
                THEN FreeGen ELSE b.gens[g]]
  /\ isUpdatingCombinedStream' = b.upd
  /\ combinedHlsFfmpegProcess' = b.proc
  /\ combinedResources' = b.res
  /\ sdpFiles' = b.files
  /\ tdLog' = b.log
  /\ pendingRetries' = b.retries
  /\ lastOutcome' = b.outcome

bridgeVars == <<gens, isUpdatingCombinedStream, combinedHlsFfmpegProcess,
                combinedResources, sdpFiles, tdLog, pendingRetries, lastOutcome>>
signalVars == <<conn, producers, nextProducerId, cpKeys, sessionObj>>

\* ================================================== signaling/websocket.ts
InitCombined ==
  /\ conn = [c \in Clients |-> "open"]
  /\ producers = [p \in ProducerIds |-> NoProducer]
  /\ nextProducerId = 1
  /\ cpKeys = <<>>
  /\ sessionObj = [c \in Clients |-> EmptySession]
  /\ pendingUpdates = 0
  /\ isUpdatingCombinedStream = FALSE
  /\ combinedHlsFfmpegProcess = 0
  /\ combinedResources = 0
  /\ gens = [g \in GenIds |-> FreeGen]
  /\ pendingRetries = <<>>
  /\ sdpFiles = <<>>
  /\ tdLog = <<>>
  /\ lastOutcome = "none"
  /\ soleLeft = "no"

InMap(c) == \E i \in DOMAIN cpKeys : cpKeys[i] = c

\* the composite is Active: a registered session whose process runs
Active == combinedResources /= 0 /\ gens[combinedResources].proc = "running"

\* clients that hold a video producer
Contributors == {c \in Clients : InMap(c) /\ sessionObj[c].video /= 0}

\* a membership event after the sole contributor left ends the scenario
AfterMembershipEvent == IF soleLeft = "armed" THEN "void" ELSE soleLeft

\* case "produce", after the await of transport.produce
Produce(c, kind) ==
  /\ conn[c] = "open"
  /\ nextProducerId <= MaxProducers
  /\ producers' = [producers EXCEPT ![nextProducerId] = [client |-> c, kind |-> kind]]
  /\ nextProducerId' = nextProducerId + 1
  /\ LET entry == IF InMap(c) THEN sessionObj[c] ELSE EmptySession
     IN sessionObj' = [sessionObj EXCEPT ![c] =
                         IF kind = "video" THEN [entry EXCEPT !.video = nextProducerId]
                         ELSE [entry EXCEPT !.audio = nextProducerId]]
  /\ cpKeys' = IF InMap(c) THEN cpKeys ELSE Append(cpKeys, c)
  /\ pendingUpdates' = IF kind = "video" THEN pendingUpdates + 1 ELSE pendingUpdates
  /\ soleLeft' = AfterMembershipEvent
  /\ tdLog' = <<>> /\ lastOutcome' = "none"
  /\ UNCHANGED <<conn, gens, isUpdatingCombinedStream, combinedHlsFfmpegProcess,
                 combinedResources, sdpFiles, pendingRetries>>
  /\ UNCHANGED <<producerVars, gateVars, layoutVars, sdpVars, pubVars, compVars, sigVars, liveVars>>

\* a handler that clears the slot and keeps the entry, empty or not
TransportCloseKeepsEntry(s, kind) ==
  IF ~s.inMap THEN s
  ELSE [obj |-> IF kind = "video" THEN [s.obj EXCEPT !.video = 0]
                ELSE [s.obj EXCEPT !.audio = 0],
        inMap |-> TRUE,
        upd |-> IF kind = "video" THEN s.upd + 1 ELSE s.upd]

\* producer.on("transportclose") of one producer of kind `kind`, on the state
\* s = [obj, inMap, upd] of its client's entry and the armed update timers
TransportCloseHandler(s, kind) ==
  IF ~s.inMap THEN s
  ELSE LET o == IF kind = "video" THEN [s.obj EXCEPT !.video = 0]
                ELSE [s.obj EXCEPT !.audio = 0]
       IN [obj |-> o,
           inMap |-> ~(o.video = 0 /\ o.audio = 0),
           upd |-> IF kind = "video" THEN s.upd + 1 ELSE s.upd]

RECURSIVE RunHandlers(_, _)
\* the transportclose handlers of the producers ps, in the order of their creation
RunHandlers(s, ps) ==
  IF ps = <<>> THEN s
  ELSE RunHandlers(TransportCloseHandler(s, producers[Head(ps)].kind), Tail(ps))

ProducersOf(c) == {p \in ProducerIds : producers[p].client = c}

\* a snapshot after the session object of c has left the map empty
Tombstone(snap, c) == [i \in DOMAIN snap |-> IF snap[i] = c THEN 0 ELSE snap[i]]

\* the send transport of c closes: every producer on it emits transportclose
AfterTransportClose(c) ==
  RunHandlers([obj |-> sessionObj[c], inMap |-> InMap(c), upd |-> pendingUpdates],
              SeqOfSet(ProducersOf(c)))

\* the maps, the entry of c and the armed timers after its send transport closed
CloseSendTransport(c) ==
  LET s == AfterTransportClose(c)
      left == InMap(c) /\ ~s.inMap
  IN /\ producers' = [p \in ProducerIds |->
                        IF producers[p].client = c THEN NoProducer ELSE producers[p]]
     /\ sessionObj' = [sessionObj EXCEPT ![c] = s.obj]
     /\ cpKeys' = IF left THEN SelectSeq(cpKeys, LAMBDA x : x /= c) ELSE cpKeys
     /\ pendingUpdates' = s.upd
     /\ gens' = IF left THEN [g \in GenIds |-> [gens[g] EXCEPT !.snap = Tombstone(@, c)]]
                ELSE gens
     /\ pendingRetries' =
          IF left THEN [i \in DOMAIN pendingRetries |->
                          [pendingRetries[i] EXCEPT !.sessions = Tombstone(@, c)]]
          ELSE pendingRetries

\* transport.on("dtlsstatechange") with state closed: transport.close(). The
\* client stays connected and may create a send transport and produce again.
SendTransportClosed(c) ==
  /\ conn[c] = "open"
  /\ ProducersOf(c) /= {}
  /\ CloseSendTransport(c)
  /\ soleLeft' = AfterMembershipEvent
  /\ tdLog' = <<>> /\ lastOutcome' = "none"
  /\ UNCHANGED <<conn, nextProducerId, isUpdatingCombinedStream, combinedHlsFfmpegProcess,
                 combinedResources, sdpFiles>>
  /\ UNCHANGED <<producerVars, gateVars, layoutVars, sdpVars, pubVars, compVars, sigVars, liveVars>>

\* ws.on("close"): the send transport closes, and its producers with it; then
\* hadVideoProducer is read, the maps are swept for producers the client still
\* owns, and the entry of the client is deleted
Disconnect(c) ==
  /\ conn[c] = "open"
  /\ conn' = [conn EXCEPT ![c] = "gone"]
  /\ soleLeft' = IF soleLeft = "no" /\ Active /\ Contributors = {c}
                    /\ gens[combinedResources].nVideo = 1
                 THEN "armed" ELSE AfterMembershipEvent
  /\ LET s == AfterTransportClose(c)
         hadVideoProducer == s.inMap /\ s.obj.video /= 0
     IN /\ producers' = [p \in ProducerIds |->
                           IF producers[p].client = c THEN NoProducer ELSE producers[p]]
        /\ sessionObj' = [sessionObj EXCEPT ![c] = s.obj]
        /\ cpKeys' = SelectSeq(cpKeys, LAMBDA x : x /= c)
        /\ pendingUpdates' = IF hadVideoProducer THEN s.upd + 1 ELSE s.upd
        /\ gens' = IF InMap(c) /\ ~s.inMap
                   THEN [g \in GenIds |-> [gens[g] EXCEPT !.snap = Tombstone(@, c)]]
                   ELSE gens
        /\ pendingRetries' =
             IF InMap(c) /\ ~s.inMap
             THEN [i \in DOMAIN pendingRetries |->
                     [pendingRetries[i] EXCEPT !.sessions = Tombstone(@, c)]]
             ELSE pendingRetries
  /\ tdLog' = <<>> /\ lastOutcome' = "none"
  /\ UNCHANGED <<nextProducerId, isUpdatingCombinedStream, combinedHlsFfmpegProcess,
                 combinedResources, sdpFiles>>
  /\ UNCHANGED <<producerVars, gateVars, layoutVars, sdpVars, pubVars, compVars, sigVars, liveVars>>

\* updateCombinedStream's activeSessions: the entries with a video producer
ActiveSessions == SelectSeq(cpKeys, LAMBDA c : sessionObj[c].video /= 0)

\* a close() can throw only where the teardown has a consumer to close
MayThrow(closeThrows) ==
  closeThrows => /\ ~Busy
                 /\ combinedResources /= 0
                 /\ gens[combinedResources].cOpen > 0

\* a 1000 ms timer fires: updateCombinedStream() calls setupCombinedHlsStream;
\* closeThrows: a consumer's close() throws during the teardown
UpdateCombinedStream(closeThrows) ==
  /\ pendingUpdates > 0
  /\ MayThrow(closeThrows)
  /\ Busy \/ ActiveSessions = <<>> \/ FreeSlots(gens) /= {}
  /\ pendingUpdates' = pendingUpdates - 1
  /\ Commit(Setup(BridgeState, ActiveSessions, FALSE, closeThrows))
  /\ UNCHANGED <<signalVars, soleLeft>>
  /\ UNCHANGED <<producerVars, gateVars, layoutVars, sdpVars, pubVars, compVars, sigVars, liveVars>>

\* a 2000 ms retry timer fires: setupCombinedHlsStream with the same sessions map
RetryRebuild(closeThrows) ==
  /\ pendingRetries /= <<>>
  /\ MayThrow(closeThrows)
  /\ Busy \/ Head(pendingRetries).sessions = <<>> \/ FreeSlots(gens) /= {}
  /\ Commit(Setup([BridgeState EXCEPT !.retries = Tail(pendingRetries)],
                  Head(pendingRetries).sessions, TRUE, closeThrows))
  /\ UNCHANGED <<signalVars, pendingUpdates, soleLeft>>
  /\ UNCHANGED <<producerVars, gateVars, layoutVars, sdpVars, pubVars, compVars, sigVars, liveVars>>

\* the rebuild resumes after the awaits of the video half of an iteration
ResumeVideo(g, routerOk, codecOk) ==
  /\ gens[g].st = "video"
  /\ Commit(VideoInput(BridgeState, g, routerOk, codecOk))
  /\ UNCHANGED <<signalVars, pendingUpdates, soleLeft>>
  /\ UNCHANGED <<producerVars, gateVars, layoutVars, sdpVars, pubVars, compVars, sigVars, liveVars>>

\* the rebuild resumes after the awaits of the audio half of an iteration
ResumeAudio(g, routerOk) ==
  /\ gens[g].st = "audio"
  /\ Commit(AudioInput(BridgeState, g, routerOk))
  /\ UNCHANGED <<signalVars, pendingUpdates, soleLeft>>
  /\ UNCHANGED <<producerVars, gateVars, layoutVars, sdpVars, pubVars, compVars, sigVars, liveVars>>

\* the gate's 150 ms timer fires; `elapsed` says whether its timeout has passed
GatePoll(g, elapsed) ==
  /\ gens[g].st = "gate"
  /\ elapsed => Len(pendingRetries) < MaxRetries
  /\ Commit(GateCheck(BridgeState, g, elapsed))
  /\ UNCHANGED <<signalVars, pendingUpdates, soleLeft>>
  /\ UNCHANGED <<producerVars, gateVars, layoutVars, sdpVars, pubVars, compVars, sigVars, liveVars>>

\* a handler that clears the reference and leaves the keyframe intervals running
ProcessGoneKeepsTimers(b, g) ==
  [b EXCEPT !.gens[g].proc = "exited",
            !.proc = 0]

\* a handler that restarts the composite itself: it arms a rebuild of its own
ProcessGoneRestarts(b, g) ==
  [b EXCEPT !.gens[g].proc = "exited",
            !.gens[g].kf = 0,
            !.proc = 0,
            !.retries = Append(@, [sessions |-> <<>>, delay |-> RetryDelayMs])]

\* ffmpegProc.on('exit') and ffmpegProc.on('error'): the same two statements
ProcessGone(b, g) ==
  [b EXCEPT !.gens[g].proc = "exited",
            !.gens[g].kf = 0,
            !.proc = 0]

\* the process of generation g exits, by itself or after the SIGTERM
FfmpegExit(g) ==
  /\ gens[g].proc \in {"running", "killed"}
  /\ Commit(ProcessGone(BridgeState, g))
  /\ UNCHANGED <<signalVars, pendingUpdates, soleLeft>>
  /\ UNCHANGED <<producerVars, gateVars, layoutVars, sdpVars, pubVars, compVars, sigVars, liveVars>>

\* the process of generation g could not be spawned: 'error' is emitted
FfmpegError(g) ==
  /\ gens[g].proc = "running"
  /\ Commit(ProcessGone(BridgeState, g))
  /\ UNCHANGED <<signalVars, pendingUpdates, soleLeft>>
  /\ UNCHANGED <<producerVars, gateVars, layoutVars, sdpVars, pubVars, compVars, sigVars, liveVars>>

\* the file system: a descriptor of hls/combined is removed by another process
\* while a rebuild is awaiting
DescriptorRemoved(i) ==
  /\ isUpdatingCombinedStream
  /\ i \in DOMAIN sdpFiles
  /\ sdpFiles[i].exists
  /\ sdpFiles' = [sdpFiles EXCEPT ![i].exists = FALSE]
  /\ tdLog' = <<>> /\ lastOutcome' = "none"
  /\ UNCHANGED <<signalVars, pendingUpdates, soleLeft, gens, isUpdatingCombinedStream,
                 combinedHlsFfmpegProcess, combinedResources, pendingRetries>>
  /\ UNCHANGED <<producerVars, gateVars, layoutVars, sdpVars, pubVars, compVars, sigVars, liveVars>>

Next ==
  \/ \E c \in Clients, kind \in {"video", "audio"} : Produce(c, kind)
  \/ \E c \in Clients : SendTransportClosed(c)
  \/ \E c \in Clients : Disconnect(c)
  \/ \E closeThrows \in BOOLEAN : UpdateCombinedStream(closeThrows)
  \/ \E closeThrows \in BOOLEAN : RetryRebuild(closeThrows)
  \/ \E g \in GenIds, routerOk \in BOOLEAN, codecOk \in BOOLEAN :
       ResumeVideo(g, routerOk, codecOk)
  \/ \E g \in GenIds, routerOk \in BOOLEAN : ResumeAudio(g, routerOk)
  \/ \E g \in GenIds, elapsed \in BOOLEAN : GatePoll(g, elapsed)
  \/ \E g \in GenIds : FfmpegExit(g)
  \/ \E g \in GenIds : FfmpegError(g)
  \/ \E i \in 1..NumClients : DescriptorRemoved(i)

\* ===================================== unnamed/part_001, unnamed/part_002
(* One setupHlsFfmpegBridge call, named by the producer whose produce event   *)
(* made it: its arguments (videoProducer, audioProducer), sessionId (key),    *)
(* where it is ("video"/"audio": awaiting that transport and consumer;        *)
(* "done": returned) and what it created; sigs counts the SIGTERMs sent to its   *)
(* process.                                                                   *)
NoSession ==
  [st |-> "none", key |-> 0, video |-> 0, audio |-> 0, tOpen |-> 0, cOpen |-> 0,
   proc |-> "none", timer |-> FALSE, sigs |-> 0]

NoPProducer == [client |-> 0, kind |-> "none", inMaps |-> FALSE, open |-> FALSE]

InitProducer ==
  /\ pConn = [c \in Clients |-> "open"]
  /\ pEntry = [c \in Clients |-> EmptySession]
  /\ pProducers = [p \in ProducerIds |-> NoPProducer]
  /\ pNextId = 1
  /\ producerResources = [p \in ProducerIds |-> 0]
  /\ pSessions = [p \in ProducerIds |-> NoSession]

\* the registry and the sessions as one record
Registry == [reg |-> producerResources, ss |-> pSessions]

\* a release that leaves the entry in the registry
ReleaseKeepsEntry(r, key) ==
  IF r.reg[key] = 0 THEN r
  ELSE [r EXCEPT !.ss[r.reg[key]].proc = IF @ = "running" THEN "killed" ELSE @,
                 !.ss[r.reg[key]].sigs = @ + 1,
                 !.ss[r.reg[key]].timer = FALSE,
                 !.ss[r.reg[key]].cOpen = 0,
                 !.ss[r.reg[key]].tOpen = 0]

\* if (producerResources.has(key)) { kill; clearInterval; consumers close;
\* transports close; delete }
Release(r, key) ==
  IF r.reg[key] = 0 THEN r
  ELSE [r EXCEPT !.ss[r.reg[key]].proc = IF @ = "running" THEN "killed" ELSE @,
                 !.ss[r.reg[key]].sigs = @ + 1,
                 !.ss[r.reg[key]].timer = FALSE,
                 !.ss[r.reg[key]].cOpen = 0,
                 !.ss[r.reg[key]].tOpen = 0,
                 !.reg[key] = 0]

RECURSIVE ReleaseAll(_, _)
ReleaseAll(r, keys) ==
  IF keys = <<>> THEN r ELSE ReleaseAll(Release(r, Head(keys)), Tail(keys))

\* const sessionId = videoProducer?.id || audioProducer?.id
SessionId(video, audio) == IF video /= 0 THEN video ELSE audio

\* spawn, setInterval, producerResources.set(sessionId, ...), and the
\* transportclose handlers on both producers
Complete(r, i) ==
  [r EXCEPT !.ss[i].st = "done",
            !.ss[i].proc = "running",
            !.ss[i].timer = TRUE,
            !.reg[r.ss[i].key] = i]

\* catch (error) {}
Swallow(r, i) == [r EXCEPT !.ss[i].st = "done"]

CommitRegistry(r) ==
  /\ producerResources' = r.reg
  /\ pSessions' = r.ss

\* case "produce" of part_002 up to the first await inside setupHlsFfmpegBridge:
\* the maps and the entry are updated, the bridge releases what the registry
\* holds under the key, then awaits its first plain transport
PProduce(c, kind) ==
  /\ pConn[c] = "open"
  /\ pNextId <= MaxProducers
  /\ LET entry == IF kind = "video" THEN [pEntry[c] EXCEPT !.video = pNextId]
                  ELSE [pEntry[c] EXCEPT !.audio = pNextId]
         key == SessionId(entry.video, entry.audio)
         r == Release(Registry, key)
     IN /\ pEntry' = [pEntry EXCEPT ![c] = entry]
        /\ CommitRegistry([r EXCEPT !.ss[pNextId] =
                             [NoSession EXCEPT !.st = IF entry.video /= 0 THEN "video"
                                                      ELSE "audio",
                                               !.key = key,
                                               !.video = entry.video,
                                               !.audio = entry.audio]])
  /\ pProducers' = [pProducers EXCEPT ![pNextId] =
                      [client |-> c, kind |-> kind, inMaps |-> TRUE, open |-> TRUE]]
  /\ pNextId' = pNextId + 1
  /\ UNCHANGED pConn
  /\ UNCHANGED <<combinedVars, gateVars, layoutVars, sdpVars, pubVars, compVars, sigVars, liveVars>>

\* the bridge resumes with its video transport and consumer
PResumeVideo(i, routerOk) ==
  /\ pSessions[i].st = "video"
  /\ LET s == pSessions[i]
         r1 == [Registry EXCEPT !.ss[i].tOpen = @ + 1]
     IN IF ~routerOk \/ ~pProducers[s.video].open THEN CommitRegistry(Swallow(r1, i))
        ELSE LET r2 == [r1 EXCEPT !.ss[i].cOpen = @ + 1]
             IN IF s.audio /= 0 THEN CommitRegistry([r2 EXCEPT !.ss[i].st = "audio"])
                ELSE CommitRegistry(Complete(r2, i))
  /\ UNCHANGED <<pConn, pEntry, pProducers, pNextId>>
  /\ UNCHANGED <<combinedVars, gateVars, layoutVars, sdpVars, pubVars, compVars, sigVars, liveVars>>

\* the bridge resumes with its audio transport and consumer
PResumeAudio(i, routerOk) ==
  /\ pSessions[i].st = "audio"
  /\ LET s == pSessions[i]
         r1 == [Registry EXCEPT !.ss[i].tOpen = @ + 1]
     IN IF ~routerOk \/ ~pProducers[s.audio].open THEN CommitRegistry(Swallow(r1, i))
        ELSE CommitRegistry(Complete([r1 EXCEPT !.ss[i].cOpen = @ + 1], i))
  /\ UNCHANGED <<pConn, pEntry, pProducers, pNextId>>
  /\ UNCHANGED <<combinedVars, gateVars, layoutVars, sdpVars, pubVars, compVars, sigVars, liveVars>>

\* the bridge calls that registered a transportclose handler on producer p
BridgeHandlers(p) ==
  {i \in ProducerIds : /\ pSessions[i].st = "done"
                       /\ pSessions[i].proc /= "none"
                       /\ p \in {pSessions[i].video, pSessions[i].audio}}

\* the produce handler registers its own transportclose handler on p after the
\* bridge call it awaited has returned
SignalingHandler(p) == pSessions[p].st = "done"

OpenProducersOf(c) == {p \in ProducerIds : pProducers[p].client = c /\ pProducers[p].open}

RECURSIVE KeysOf(_)
\* the keys of a sequence of bridge calls
KeysOf(is) == IF is = <<>> THEN <<>> ELSE <<pSessions[Head(is)].key>> \o KeysOf(Tail(is))

RECURSIVE HandlerKeys(_)
\* the keys that the bridge's transportclose handlers of the producers ps
\* release, one per handler, in the order the handlers run
HandlerKeys(ps) ==
  IF ps = <<>> THEN <<>>
  ELSE KeysOf(SeqOfSet(BridgeHandlers(Head(ps)))) \o HandlerKeys(Tail(ps))

\* every producer of c emits transportclose: the bridge's handlers release
\* their keys, the signaling handlers clear the maps and the entry's slots
PAfterClose(c) ==
  LET ps == OpenProducersOf(c)
      keys == HandlerKeys(SeqOfSet(ps))
      sig == {p \in ps : SignalingHandler(p)}
  IN [r |-> ReleaseAll(Registry, keys),
      entry |-> [video |-> IF \E p \in sig : pProducers[p].kind = "video" THEN 0
                           ELSE pEntry[c].video,
                 audio |-> IF \E p \in sig : pProducers[p].kind = "audio" THEN 0
                           ELSE pEntry[c].audio],
      prods |-> [p \in ProducerIds |->
                   IF p \in ps
                   THEN [pProducers[p] EXCEPT !.open = FALSE,
                                              !.inMaps = IF p \in sig THEN FALSE ELSE @]
                   ELSE pProducers[p]]]

\* the send transport of c closes (dtlsstatechange closed)
PTransportClosed(c) ==
  /\ pConn[c] = "open"
  /\ OpenProducersOf(c) /= {}
  /\ LET a == PAfterClose(c)
     IN /\ CommitRegistry(a.r)
        /\ pEntry' = [pEntry EXCEPT ![c] = a.entry]
        /\ pProducers' = a.prods
  /\ UNCHANGED <<pConn, pNextId>>
  /\ UNCHANGED <<combinedVars, gateVars, layoutVars, sdpVars, pubVars, compVars, sigVars, liveVars>>

\* ws.on("close") of part_002: the transports close, then every producer the
\* maps still hold for the client is closed and the registry entry under its
\* own id is released
PDisconnect(c) ==
  /\ pConn[c] = "open"
  /\ pConn' = [pConn EXCEPT ![c] = "gone"]
  /\ LET a == PAfterClose(c)
         swept == {p \in ProducerIds : a.prods[p].client = c /\ a.prods[p].inMaps}
     IN /\ CommitRegistry(ReleaseAll(a.r, SeqOfSet(swept)))
        /\ pEntry' = [pEntry EXCEPT ![c] = a.entry]
        /\ pProducers' = [p \in ProducerIds |->
                            IF p \in swept THEN [a.prods[p] EXCEPT !.inMaps = FALSE]
                            ELSE a.prods[p]]
  /\ UNCHANGED pNextId
  /\ UNCHANGED <<combinedVars, gateVars, layoutVars, sdpVars, pubVars, compVars, sigVars, liveVars>>

\* the ffmpeg of session i exits, by itself or after the SIGTERM
PFfmpegExit(i) ==
  /\ pSessions[i].proc \in {"running", "killed"}
  /\ pSessions' = [pSessions EXCEPT ![i].proc = "exited"]
  /\ UNCHANGED <<pConn, pEntry, pProducers, pNextId, producerResources>>
  /\ UNCHANGED <<combinedVars, gateVars, layoutVars, sdpVars, pubVars, compVars, sigVars, liveVars>>

NextProducer ==
  \/ \E c \in Clients, kind \in {"video", "audio"} : PProduce(c, kind)
  \/ \E i \in ProducerIds, routerOk \in BOOLEAN : PResumeVideo(i, routerOk)
  \/ \E i \in ProducerIds, routerOk \in BOOLEAN : PResumeAudio(i, routerOk)
  \/ \E c \in Clients : PTransportClosed(c)
  \/ \E c \in Clients : PDisconnect(c)
  \/ \E i \in ProducerIds : PFfmpegExit(i)

\* ================================================ filter graph and arguments
(* The filter graph is kept as the list of filters that filters.join(';')     *)
(* writes, each with its input labels, its name, the numbers it is given and  *)
(* its output label. A label is a name and an optional index: [v] is          *)
(* Label("v", <<>>), [v0] is Label("v", <<0>>), [2:a] is Label(":a", <<2>>).  *)
Label(n, ix) == [n |-> n, ix |-> ix]
Filter(ins, op, w, h, out) == [ins |-> ins, op |-> op, w |-> w, h |-> h, out |-> out]

\* [i:v]fps=F[vfpsi] for every input
FpsFilters(inputCount, targetFps) ==
  [k \in 1..inputCount |->
     Filter(<<Label(":v", <<k - 1>>)>>, "fps", targetFps, 0, Label("vfps", <<k - 1>>))]

\* [vfpsi]scale=w:h...,pad=w:h...[vi] for every input
ScaleFilters(inputCount, cellWidth, cellHeight) ==
  [k \in 1..inputCount |->
     Filter(<<Label("vfps", <<k - 1>>)>>, "scalepad", cellWidth, cellHeight,
            Label("v", <<k - 1>>))]

\* a variant that numbers every row's inputs from 0
RowInputsFromZero(row, cols, inputCount) ==
  [k \in 1..Min(cols, inputCount - row * cols) |-> Label("v", <<k - 1>>)]

\* the labels of one row: [v idx] for idx = row * cols + col below inputCount
RowInputs(row, cols, inputCount) ==
  [k \in 1..Min(cols, inputCount - row * cols) |-> Label("v", <<row * cols + k - 1>>)]

RECURSIVE HstackRows(_, _, _, _)
\* the loop over the rows from row on: the hstack filters it pushes and rowLabels
HstackRows(row, rows, cols, inputCount) ==
  IF row >= rows THEN [filters |-> <<>>, rowLabels |-> <<>>]
  ELSE LET rowInputs == RowInputs(row, cols, inputCount)
           rest == HstackRows(row + 1, rows, cols, inputCount)
       IN IF Len(rowInputs) = 0 THEN rest
          ELSE IF Len(rowInputs) = 1
            THEN [filters |-> rest.filters,
                  rowLabels |-> <<rowInputs[1]>> \o rest.rowLabels]
            ELSE [filters |-> <<Filter(rowInputs, "hstack", Len(rowInputs), 0,
                                       Label("r", <<row>>))>> \o rest.filters,
                  rowLabels |-> <<Label("r", <<row>>)>> \o rest.rowLabels]

\* a variant that leaves a single row unnamed
StackRowsOnlyMany(rowLabels) ==
  IF Len(rowLabels) = 1 THEN <<>>
  ELSE <<Filter(rowLabels, "vstack", Len(rowLabels), 0, Label("v", <<>>))>>

\* the rows stacked into [v]
StackRows(rowLabels) ==
  IF Len(rowLabels) = 1
    THEN <<Filter(rowLabels, "copy", 0, 0, Label("v", <<>>))>>
    ELSE <<Filter(rowLabels, "vstack", Len(rowLabels), 0, Label("v", <<>>))>>

buildFilterComplex(inputCount, audioInputCount, layout, targetFps) ==
  IF inputCount = 1
    THEN FpsFilters(inputCount, targetFps)
           \o <<Filter(<<Label("vfps", <<0>>)>>, "scalepad", layout.width, layout.height,
                       Label("v", <<>>))>>
    ELSE LET cols == CeilSqrt(inputCount)
             rows == CeilDiv(inputCount, cols)
             cellWidth == layout.width \div cols
             cellHeight == layout.height \div rows
             grid == HstackRows(0, rows, cols, inputCount)
         IN FpsFilters(inputCount, targetFps)
              \o ScaleFilters(inputCount, cellWidth, cellHeight)
              \o grid.filters
              \o StackRows(grid.rowLabels)

(* The argument vector is a list of tokens: a literal word, a descriptor path *)
(* (its stem and input index), a filter graph, or a label.                    *)
Word(s) == [k |-> "word", s |-> s, ix |-> <<>>, f |-> <<>>]
SdpPath(stem, i) == [k |-> "path", s |-> stem, ix |-> <<i>>, f |-> <<>>]
Graph(f) == [k |-> "graph", s |-> "", ix |-> <<>>, f |-> f]
LabelWord(l) == [k |-> "label", s |-> l.n, ix |-> l.ix, f |-> <<>>]

\* the four options in front of one descriptor
InputArgs(path) ==
  <<Word("-protocol_whitelist"), Word("file,udp,rtp"),
    Word("-fflags"), Word("+genpts+igndts"),
    Word("-avoid_negative_ts"), Word("make_zero"),
    Word("-i"), path>>

RECURSIVE FlatMapInputArgs(_)
\* paths.flatMap(i => [..., '-i', i])
FlatMapInputArgs(paths) ==
  IF paths = <<>> THEN <<>> ELSE InputArgs(Head(paths)) \o FlatMapInputArgs(Tail(paths))

ffmpegInputArgs(inputs, audioInputs) ==
  FlatMapInputArgs(inputs) \o FlatMapInputArgs(audioInputs)

\* the labels [V:a] .. [V+A-1:a]
audioInputLabels(inputs, audioInputs) ==
  [idx \in 1..Len(audioInputs) |-> Label(":a", <<Len(inputs) + idx - 1>>)]

\* a variant that numbers the audio streams from 0
AmixFromZero(inputs, audioInputs) ==
  <<Filter([idx \in 1..Len(audioInputs) |-> Label(":a", <<idx - 1>>)],
           "amix", Len(audioInputs), 0, Label("a", <<>>))>>

\* ;<labels>amix=inputs=A:...,adelay=...[a]
Amix(inputs, audioInputs) ==
  <<Filter(audioInputLabels(inputs, audioInputs), "amix", Len(audioInputs), 0,
           Label("a", <<>>))>>

\* filterComplex after the audio stage is appended
filterComplex(inputs, audioInputs, numParticipants) ==
  buildFilterComplex(Len(inputs), Len(audioInputs), getLayoutConfig(numParticipants),
                     OutputFps)
    \o (IF Len(audioInputs) > 0 THEN Amix(inputs, audioInputs) ELSE <<>>)

mapArgs(audioInputs) ==
  <<Word("-map"), LabelWord(Label("v", <<>>))>>
    \o (IF Len(audioInputs) > 0
          THEN <<Word("-map"), LabelWord(Label("a", <<>>))>> ELSE <<>>)

VideoEncoderArgs ==
  <<Word("-c:v"), Word("libx264"), Word("-preset"), Word("medium"),
    Word("-crf"), Word("23"), Word("-b:v"), Word("3M"), Word("-maxrate"), Word("3M"),
    Word("-bufsize"), Word("4M"), Word("-r"), Word("60"), Word("-g"), Word("120"),
    Word("-keyint_min"), Word("120"), Word("-sc_threshold"), Word("0"),
    Word("-force_key_frames"), Word("expr:gte(t,n_forced*2)")>>

AudioEncoderArgs ==
  <<Word("-c:a"), Word("aac"), Word("-b:a"), Word("128k"), Word("-ar"), Word("48000"),
    Word("-ac"), Word("2"), Word("-async"), Word("1")>>

HlsArgs ==
  <<Word("-vsync"), Word("cfr"), Word("-copytb"), Word("1"),
    Word("-avoid_negative_ts"), Word("make_zero"),
    Word("-f"), Word("hls"), Word("-hls_time"), Word("1"),
    Word("-hls_list_size"), Word("2"), Word("-hls_flags"),
    Word("delete_segments+omit_endlist+program_date_time+independent_segments"),
    Word("-hls_segment_type"), Word("fmp4"), Word("-hls_playlist_type"), Word("event"),
    Word("-start_number"), Word("0"), Word("playlist.m3u8")>>

ffmpegArgs(inputs, audioInputs, numParticipants) ==
  <<Word("-analyzeduration"), Word("1000000"), Word("-probesize"), Word("1000000"),
    Word("-max_delay"), Word("500000")>>
    \o ffmpegInputArgs(inputs, audioInputs)
    \o <<Word("-filter_complex"), Graph(filterComplex(inputs, audioInputs, numParticipants))>>
    \o mapArgs(audioInputs)
    \o VideoEncoderArgs
    \o (IF Len(audioInputs) > 0 THEN AudioEncoderArgs ELSE <<>>)
    \o HlsArgs

\* inputs and audioInputs as the loop over the sessions leaves them
VideoInputs == [k \in 1..lV |-> SdpPath("input", k - 1)]
AudioInputs ==
  LET idx == SeqOfSet(lAudio) IN [k \in 1..Len(idx) |-> SdpPath("audio", idx[k])]

\* a rebuild that has collected its inputs: numParticipants sessions were
\* snapshotted, lV of them gave a video input and those in lAudio an audio one
InitLayout ==
  /\ lP \in 1..MaxInputs
  /\ lV \in 1..lP
  /\ lAudio \in SUBSET (0..(lV - 1))
  /\ lPc = "idle"
  /\ lFilter = <<>>
  /\ lFilter2 = <<>>
  /\ lArgs = <<>>

LayoutUnused ==
  /\ lP = 1
  /\ lV = 1
  /\ lAudio = {}
  /\ lPc = "idle"
  /\ lFilter = <<>>
  /\ lFilter2 = <<>>
  /\ lArgs = <<>>

\* buildFilterComplex(inputs.length, audioInputs.length, layout, fps)
CallBuildFilterComplex ==
  /\ lPc = "idle"
  /\ lFilter' = buildFilterComplex(lV, Cardinality(lAudio), getLayoutConfig(lP), OutputFps)
  /\ lPc' = "called"
  /\ UNCHANGED <<lP, lV, lAudio, lFilter2, lArgs>>
  /\ UNCHANGED <<combinedVars, producerVars, gateVars, sdpVars, pubVars, compVars, sigVars, liveVars>>

\* the same call once more
CallBuildFilterComplexAgain ==
  /\ lPc = "called"
  /\ lFilter2' = buildFilterComplex(lV, Cardinality(lAudio), getLayoutConfig(lP), OutputFps)
  /\ lPc' = "twice"
  /\ UNCHANGED <<lP, lV, lAudio, lFilter, lArgs>>
  /\ UNCHANGED <<combinedVars, producerVars, gateVars, sdpVars, pubVars, compVars, sigVars, liveVars>>

\* the rebuild from the layout lookup to the argument vector
BuildFfmpegArgs ==
  /\ lPc = "idle"
  /\ lFilter' = filterComplex(VideoInputs, AudioInputs, lP)
  /\ lArgs' = ffmpegArgs(VideoInputs, AudioInputs, lP)
  /\ lPc' = "args"
  /\ UNCHANGED <<lP, lV, lAudio, lFilter2>>
  /\ UNCHANGED <<combinedVars, producerVars, gateVars, sdpVars, pubVars, compVars, sigVars, liveVars>>

LayoutNext ==
  \/ CallBuildFilterComplex
  \/ CallBuildFilterComplexAgain
  \/ BuildFfmpegArgs

\* ========================================================= createSdpFile
(* Strings the code inspects character by character (MIME types and the      *)
(* words looked for in them) are sequences of one-character strings.         *)
UpperCase == <<"A", "B", "C", "D", "E", "F", "G", "H", "I", "J", "K", "L", "M",
               "N", "O", "P", "Q", "R", "S", "T", "U", "V", "W", "X", "Y", "Z">>
LowerCase == <<"a", "b", "c", "d", "e", "f", "g", "h", "i", "j", "k", "l", "m",
               "n", "o", "p", "q", "r", "s", "t", "u", "v", "w", "x", "y", "z">>
toLowerCase(s) ==
  [i \in DOMAIN s |->
     IF \E k \in DOMAIN UpperCase : UpperCase[k] = s[i]
       THEN LowerCase[CHOOSE k \in DOMAIN UpperCase : UpperCase[k] = s[i]]
       ELSE s[i]]
toUpperCase(s) ==
  [i \in DOMAIN s |->
     IF \E k \in DOMAIN LowerCase : LowerCase[k] = s[i]
       THEN UpperCase[CHOOSE k \in DOMAIN LowerCase : LowerCase[k] = s[i]]
       ELSE s[i]]
\* s.includes(w)
includes(s, w) ==
  \E i \in 0..(Len(s) - Len(w)) : SubSeq(s, i + 1, i + Len(w)) = w
\* s.split("/")[1], for an s with a "/" in it
SplitSecond(s) ==
  LET a == CHOOSE i \in DOMAIN s : s[i] = "/" /\ \A j \in 1..(i - 1) : s[j] /= "/"
      later == {i \in (a + 1)..Len(s) : s[i] = "/"}
      b == IF later = {} THEN Len(s) + 1 ELSE CHOOSE i \in later : \A j \in later : i <= j
  IN SubSeq(s, a + 1, b - 1)

AudioWord == <<"a", "u", "d", "i", "o">>
VideoWord == <<"v", "i", "d", "e", "o">>
OpusWord == <<"o", "p", "u", "s">>
AacWord == <<"a", "a", "c">>
Vp8Word == <<"v", "p", "8">>
Vp9Word == <<"v", "p", "9">>
H264Word == <<"h", "2", "6", "4">>

\* the MIME types a codec is drawn from: those of the router (worker.ts) and
\* some it does not offer
AudioMimeTypes ==
  { AudioWord \o <<"/">> \o OpusWord,
    AudioWord \o <<"/", "m", "u", "l", "t", "i">> \o OpusWord,
    AudioWord \o <<"/">> \o AacWord,
    AudioWord \o <<"/", "P", "C", "M", "U">> }
VideoMimeTypes ==
  { VideoWord \o <<"/", "V", "P", "8">>,
    VideoWord \o <<"/", "V", "P", "9">>,
    VideoWord \o <<"/">> \o H264Word,
    VideoWord \o <<"/", "H", "2", "6", "4", "-", "S", "V", "C">>,
    VideoWord \o <<"/", "A", "V", "1">> }

(* A codec: channels is 0 when the codec has none; a parameter is <<>> when   *)
(* the codec does not carry it and <<value>> when it does.                    *)
NoCodec ==
  [mimeType |-> <<>>, clockRate |-> 0, channels |-> 0, payloadType |-> 0,
   packetizationMode |-> <<>>, profileLevelId |-> <<>>]
AudioCodecs ==
  [mimeType : AudioMimeTypes, clockRate : {48000}, channels : {0, 1},
   payloadType : {111}, packetizationMode : {<<>>},
   profileLevelId : {<<>>, <<"1">>}]
VideoCodecs ==
  [mimeType : VideoMimeTypes, clockRate : {90000}, channels : {0},
   payloadType : {96, 102}, packetizationMode : {<<>>, <<0>>, <<1>>},
   profileLevelId : {<<>>, <<"4d0032">>}]

\* a JavaScript condition on a parameter that holds a number, a string
TruthyNumber(v) == v /= <<>> /\ v[1] /= 0
TruthyString(v) == v /= <<>> /\ v[1] /= ""

(* The text is a list of lines and a line a list of pieces: a literal, a      *)
(* number written in decimal, or a name made of characters.                   *)
Lit(s) == [t |-> "lit", s |-> s, n |-> 0, c |-> <<>>]
Num(n) == [t |-> "num", s |-> "", n |-> n, c |-> <<>>]
Chars(c) == [t |-> "chars", s |-> "", n |-> 0, c |-> c]

RECURSIVE Join(_, _)
\* params.join(sep)
Join(params, sep) ==
  IF params = <<>> THEN <<>>
  ELSE IF Len(params) = 1 THEN Head(params)
  ELSE Head(params) \o <<Lit(sep)>> \o Join(Tail(params), sep)

\* the name createSdpFile picks for the codec
CodecName(codec) ==
  LET mime == toLowerCase(codec.mimeType)
  IN IF includes(mime, AudioWord)
       THEN IF includes(mime, OpusWord) THEN <<"O", "P", "U", "S">>
            ELSE IF includes(mime, AacWord)
              THEN <<"M", "P", "E", "G", "4", "-", "G", "E", "N", "E", "R", "I", "C">>
            ELSE toUpperCase(SplitSecond(codec.mimeType))
     ELSE IF includes(mime, VideoWord)
       THEN IF includes(mime, Vp8Word) THEN <<"V", "P", "8">>
            ELSE IF includes(mime, Vp9Word) THEN <<"V", "P", "9">>
            ELSE IF includes(mime, H264Word) THEN <<"H", "2", "6", "4">>
            ELSE toUpperCase(SplitSecond(codec.mimeType))
     ELSE <<>>

\* params of the h264 branch, of the aac branch
H264Params(codec) ==
  (IF TruthyNumber(codec.packetizationMode)
     THEN <<<<Lit("packetization-mode="), Num(codec.packetizationMode[1])>>>> ELSE <<>>)
  \o (IF TruthyString(codec.profileLevelId)
        THEN <<<<Lit("profile-level-id="), Lit(codec.profileLevelId[1])>>>> ELSE <<>>)
AacParams(codec) ==
  IF TruthyString(codec.profileLevelId)
    THEN <<<<Lit("profile-level-id="), Lit(codec.profileLevelId[1])>>>> ELSE <<>>

FmtpLine(payloadType, params) ==
  IF Len(params) > 0
    THEN <<<<Lit("a=fmtp:"), Num(payloadType), Lit(" ")>> \o Join(params, ";")>>
    ELSE <<>>

\* the lines of fmtp
Fmtp(codec, payloadType) ==
  LET mime == toLowerCase(codec.mimeType)
  IN IF includes(mime, AudioWord)
       THEN IF includes(mime, OpusWord) THEN <<>>
            ELSE IF includes(mime, AacWord) THEN FmtpLine(payloadType, AacParams(codec))
            ELSE <<>>
     ELSE IF includes(mime, VideoWord)
       THEN IF includes(mime, Vp8Word) THEN <<>>
            ELSE IF includes(mime, Vp9Word) THEN <<>>
            ELSE IF includes(mime, H264Word) THEN FmtpLine(payloadType, H264Params(codec))
            ELSE <<>>
     ELSE <<>>

\* the lines of mline
Mline(codec, payloadType, rtpPort) ==
  LET mime == toLowerCase(codec.mimeType)
      channels == IF codec.channels /= 0 THEN codec.channels ELSE 2
  IN IF includes(mime, AudioWord)
       THEN << <<Lit("m=audio "), Num(rtpPort), Lit(" RTP/AVP "), Num(payloadType)>>,
               <<Lit("a=rtpmap:"), Num(payloadType), Lit(" "), Chars(CodecName(codec)),
                 Lit("/"), Num(codec.clockRate), Lit("/"), Num(channels)>> >>
     ELSE IF includes(mime, VideoWord)
       THEN << <<Lit("m=video "), Num(rtpPort), Lit(" RTP/AVP "), Num(payloadType)>>,
               <<Lit("a=rtpmap:"), Num(payloadType), Lit(" "), Chars(CodecName(codec)),
                 Lit("/"), Num(codec.clockRate)>> >>
     ELSE <<>>

SessionHeader ==
  << <<Lit("v=0")>>, <<Lit("o=- 0 0 IN IP4 127.0.0.1")>>, <<Lit("s=mediasoup")>>,
     <<Lit("c=IN IP4 127.0.0.1")>>, <<Lit("t=0 0")>> >>

\* a variant that writes the format parameters before the media line
createSdpFileFmtpFirst(codec, payloadType, rtpPort, rtcpPort) ==
  SessionHeader
    \o Fmtp(codec, payloadType)
    \o Mline(codec, payloadType, rtpPort)
    \o << <<Lit("a=sendonly")>>, <<Lit("a=rtcp:"), Num(rtcpPort)>> >>

createSdpFile(codec, payloadType, rtpPort, rtcpPort) ==
  SessionHeader
    \o Mline(codec, payloadType, rtpPort)
    \o Fmtp(codec, payloadType)
    \o << <<Lit("a=sendonly")>>, <<Lit("a=rtcp:"), Num(rtcpPort)>> >>

\* the createSdpFile of index.ts line 91: the name is H264 unless the codec is
\* VP8 or VP9, and the media line is a video line whatever the codec
createSdpFileLegacy(codec, payloadType, rtpPort, rtcpPort) ==
  LET mime == toLowerCase(codec.mimeType)
      codecName == IF includes(mime, Vp8Word) THEN <<"V", "P", "8">>
                   ELSE IF includes(mime, Vp9Word) THEN <<"V", "P", "9">>
                   ELSE <<"H", "2", "6", "4">>
      fmtp == IF ~includes(mime, Vp8Word) /\ ~includes(mime, Vp9Word)
                 /\ includes(mime, H264Word)
                THEN FmtpLine(payloadType, H264Params(codec)) ELSE <<>>
  IN SessionHeader
       \o << <<Lit("m=video "), Num(rtpPort), Lit(" RTP/AVP "), Num(payloadType)>>,
             <<Lit("a=rtpmap:"), Num(payloadType), Lit(" "), Chars(codecName),
               Lit("/"), Num(codec.clockRate)>> >>
       \o fmtp
       \o << <<Lit("a=sendonly")>>, <<Lit("a=rtcp:"), Num(rtcpPort)>> >>

\* stream.sdp of the per-producer bridge that calls createSdpFile per stream
StreamSdpByCalls(video, audio, videoRtpPort, audioRtpPort) ==
  (IF video /= NoCodec
     THEN createSdpFile(video, video.payloadType, videoRtpPort, videoRtpPort + 1)
     ELSE <<>>)
  \o (IF audio /= NoCodec
        THEN createSdpFile(audio, audio.payloadType, audioRtpPort, audioRtpPort + 1)
        ELSE <<>>)

\* every parameter of the codec as key=value, as Object.entries gives them
EntryParams(codec) ==
  (IF codec.packetizationMode /= <<>>
     THEN <<<<Lit("packetization-mode="), Num(codec.packetizationMode[1])>>>> ELSE <<>>)
  \o (IF codec.profileLevelId /= <<>>
        THEN <<<<Lit("profile-level-id="), Lit(codec.profileLevelId[1])>>>> ELSE <<>>)

\* the video block and the audio block the later per-producer bridge writes
VideoBlock(video, videoRtpPort) ==
  LET mime == toLowerCase(video.mimeType)
      codecName == IF includes(mime, Vp8Word) THEN <<"V", "P", "8">>
                   ELSE IF includes(mime, Vp9Word) THEN <<"V", "P", "9">>
                   ELSE IF includes(mime, H264Word) THEN <<"H", "2", "6", "4">>
                   ELSE toUpperCase(SplitSecond(video.mimeType))
  IN << <<Lit("m=video "), Num(videoRtpPort), Lit(" RTP/AVP "), Num(video.payloadType)>>,
        <<Lit("a=rtpmap:"), Num(video.payloadType), Lit(" "), Chars(codecName),
          Lit("/"), Num(video.clockRate)>> >>
     \o (IF includes(mime, H264Word)
           THEN FmtpLine(video.payloadType, H264Params(video)) ELSE <<>>)
     \o << <<Lit("a=sendonly")>>, <<Lit("a=rtcp:"), Num(videoRtpPort + 1)>> >>
AudioBlock(audio, audioRtpPort) ==
  LET mime == toLowerCase(audio.mimeType)
      channels == IF audio.channels /= 0 THEN audio.channels ELSE 2
      codecName == IF includes(mime, OpusWord) THEN <<"O", "P", "U", "S">>
                   ELSE IF includes(mime, AacWord)
                     THEN <<"M", "P", "E", "G", "4", "-", "G", "E", "N", "E", "R", "I", "C">>
                   ELSE toUpperCase(SplitSecond(audio.mimeType))
  IN << <<Lit("m=audio "), Num(audioRtpPort), Lit(" RTP/AVP "), Num(audio.payloadType)>>,
        <<Lit("a=rtpmap:"), Num(audio.payloadType), Lit(" "), Chars(codecName),
          Lit("/"), Num(audio.clockRate), Lit("/"), Num(channels)>> >>
     \o FmtpLine(audio.payloadType, EntryParams(audio))
     \o << <<Lit("a=sendonly")>>, <<Lit("a=rtcp:"), Num(audioRtpPort + 1)>> >>

\* stream.sdp of the per-producer bridge that writes the header itself
StreamSdpInline(video, audio, videoRtpPort, audioRtpPort) ==
  SessionHeader
    \o (IF video /= NoCodec THEN VideoBlock(video, videoRtpPort) ELSE <<>>)
    \o (IF audio /= NoCodec THEN AudioBlock(audio, audioRtpPort) ELSE <<>>)

RECURSIVE CompositeVideoBlocks(_, _)
\* videoProducers.forEach of restartCompositeFFmpeg: one block per video
\* consumer, built by the statements of the per-producer bridge's video block
CompositeVideoBlocks(videos, rtpPorts) ==
  IF videos = <<>> THEN <<>>
  ELSE VideoBlock(Head(videos), Head(rtpPorts))
         \o CompositeVideoBlocks(Tail(videos), Tail(rtpPorts))

\* composite.sdp: the header, the video blocks, and the block of the first
\* audio consumer, built by the statements of the per-producer bridge's audio block
CompositeSdp(videos, audios, videoRtpPorts, audioRtpPorts) ==
  SessionHeader
    \o CompositeVideoBlocks(videos, videoRtpPorts)
    \o (IF Len(audios) > 0 THEN AudioBlock(audios[1], audioRtpPorts[1]) ELSE <<>>)

\* input_<i>.sdp of the composite rebuild over numParticipants sessions
InputSdp(selectedCodec, videoRtpPort, numParticipants) ==
  createSdpFile(selectedCodec, selectedCodec.payloadType, videoRtpPort, videoRtpPort + 1)
    \o << <<Lit("a=framesize:"), Num(selectedCodec.payloadType), Lit(" "),
            Num(CellWidth(numParticipants)), Lit("-"), Num(CellHeight(numParticipants))>>,
          <<Lit("a=framerate:"), Num(OutputFps)>> >>
    \o (IF includes(toLowerCase(selectedCodec.mimeType), Vp8Word)
          THEN << <<Lit("a=fmtp:"), Num(selectedCodec.payloadType), Lit(" max-fr="),
                    Num(OutputFps), Lit("; max-fs=3600")>>,
                  <<Lit("a=ssrc:"), Lit("cname:combinedgrid")>> >>
          ELSE <<>>)

\* audio_<i>.sdp of the composite rebuild
AudioSdp(selectedAudioCodec, audioRtpPort) ==
  createSdpFile(selectedAudioCodec, selectedAudioCodec.payloadType, audioRtpPort,
                audioRtpPort + 1)
    \o << <<Lit("a=ssrc:"), Lit("cname:combinedgridaudio")>> >>

\* Math.floor(Math.random() * (65535 - 10000)) + 10000: the ends of the range
RtpPorts == {10000, 65534}

\* codecs negotiated for a session with a video producer, an audio producer or
\* both, and the port drawn for the call under study
InitSdp ==
  /\ sdpVideo \in VideoCodecs \cup {NoCodec}
  /\ sdpAudio \in AudioCodecs \cup {NoCodec}
  /\ sdpVideo /= NoCodec \/ sdpAudio /= NoCodec
  /\ sdpPort \in RtpPorts
  /\ sdpPc = "idle"
  /\ sdpArg = NoCodec
  /\ sdpText = <<>>

SdpUnused ==
  /\ sdpVideo = NoCodec
  /\ sdpAudio = NoCodec
  /\ sdpPort = 10000
  /\ sdpPc = "idle"
  /\ sdpArg = NoCodec
  /\ sdpText = <<>>

\* the codec of the session's video, audio consumer
SessionCodec(kind) == IF kind = "video" THEN sdpVideo ELSE sdpAudio

\* createSdpFile(codec, payloadType, rtpPort, rtcpPort) on one of the codecs
CallCreateSdpFile(kind) ==
  /\ sdpPc = "idle"
  /\ SessionCodec(kind) /= NoCodec
  /\ sdpArg' = SessionCodec(kind)
  /\ sdpText' = createSdpFile(SessionCodec(kind), SessionCodec(kind).payloadType,
                              sdpPort, sdpPort + 1)
  /\ sdpPc' = "created"
  /\ UNCHANGED <<sdpVideo, sdpAudio, sdpPort>>
  /\ UNCHANGED <<combinedVars, producerVars, gateVars, layoutVars, pubVars, compVars, sigVars, liveVars>>

\* the createSdpFile of index.ts line 91 on one of the codecs
CallCreateSdpFileLegacy(kind) ==
  /\ sdpPc = "idle"
  /\ SessionCodec(kind) /= NoCodec
  /\ sdpArg' = SessionCodec(kind)
  /\ sdpText' = createSdpFileLegacy(SessionCodec(kind), SessionCodec(kind).payloadType,
                                    sdpPort, sdpPort + 1)
  /\ sdpPc' = "legacy"
  /\ UNCHANGED <<sdpVideo, sdpAudio, sdpPort>>
  /\ UNCHANGED <<combinedVars, producerVars, gateVars, layoutVars, pubVars, compVars, sigVars, liveVars>>

\* fs.writeFileSync(sdpPath, sdpContent) in restartCompositeFFmpeg, for a
\* session with the video and the audio consumer of one participant
WriteCompositeSdp(audioRtpPort) ==
  /\ sdpPc = "idle"
  /\ sdpText' = CompositeSdp(IF sdpVideo /= NoCodec THEN <<sdpVideo>> ELSE <<>>,
                             IF sdpAudio /= NoCodec THEN <<sdpAudio>> ELSE <<>>,
                             <<sdpPort>>, <<audioRtpPort>>)
  /\ sdpPc' = "composite"
  /\ UNCHANGED <<sdpVideo, sdpAudio, sdpPort, sdpArg>>
  /\ UNCHANGED <<combinedVars, producerVars, gateVars, layoutVars, pubVars, compVars, sigVars, liveVars>>

\* fs.writeFileSync(sdpPath, sdpContent) in the per-producer bridges
WriteStreamSdpByCalls(audioRtpPort) ==
  /\ sdpPc = "idle"
  /\ sdpText' = StreamSdpByCalls(sdpVideo, sdpAudio, sdpPort, audioRtpPort)
  /\ sdpPc' = "streamByCalls"
  /\ UNCHANGED <<sdpVideo, sdpAudio, sdpPort, sdpArg>>
  /\ UNCHANGED <<combinedVars, producerVars, gateVars, layoutVars, pubVars, compVars, sigVars, liveVars>>

WriteStreamSdpInline(audioRtpPort) ==
  /\ sdpPc = "idle"
  /\ sdpText' = StreamSdpInline(sdpVideo, sdpAudio, sdpPort, audioRtpPort)
  /\ sdpPc' = "streamInline"
  /\ UNCHANGED <<sdpVideo, sdpAudio, sdpPort, sdpArg>>
  /\ UNCHANGED <<combinedVars, producerVars, gateVars, layoutVars, pubVars, compVars, sigVars, liveVars>>

\* fs.writeFileSync(sdpPath, sdpContent) in the composite rebuild
WriteInputSdp(numParticipants) ==
  /\ sdpPc = "idle"
  /\ sdpVideo /= NoCodec
  /\ sdpText' = InputSdp(sdpVideo, sdpPort, numParticipants)
  /\ sdpPc' = "input"
  /\ UNCHANGED <<sdpVideo, sdpAudio, sdpPort, sdpArg>>
  /\ UNCHANGED <<combinedVars, producerVars, gateVars, layoutVars, pubVars, compVars, sigVars, liveVars>>

\* fs.writeFileSync(audioSdpPath, audioSdpContent) in the composite rebuild
WriteAudioSdp ==
  /\ sdpPc = "idle"
  /\ sdpAudio /= NoCodec
  /\ sdpText' = AudioSdp(sdpAudio, sdpPort)
  /\ sdpPc' = "audio"
  /\ UNCHANGED <<sdpVideo, sdpAudio, sdpPort, sdpArg>>
  /\ UNCHANGED <<combinedVars, producerVars, gateVars, layoutVars, pubVars, compVars, sigVars, liveVars>>

SdpNext ==
  \/ \E kind \in {"video", "audio"} : CallCreateSdpFile(kind)
  \/ \E kind \in {"video", "audio"} : CallCreateSdpFileLegacy(kind)
  \/ \E audioRtpPort \in RtpPorts : WriteCompositeSdp(audioRtpPort)
  \/ \E audioRtpPort \in RtpPorts : WriteStreamSdpByCalls(audioRtpPort)
  \/ \E audioRtpPort \in RtpPorts : WriteStreamSdpInline(audioRtpPort)
  \/ \E numParticipants \in 1..MaxInputs : WriteInputSdp(numParticipants)
  \/ WriteAudioSdp

\* ============================================================ publish timer
(* A directory holds playlist.m3u8 and the segments segment_NNN.ts, each as   *)
(* the version of its content, 0 when the file is absent; the session         *)
(* directory also holds stream.sdp, which no publish tick reads.              *)
SegmentNames == 1..MaxSegments
EmptyDir == [playlist |-> 0, segments |-> [s \in SegmentNames |-> 0]]

SessionTypes == {"producer", "composite", "combined"}
\* the period of the setInterval that publishes, in milliseconds
PublishPeriodMs(type) ==
  IF type = "producer" THEN 2000 ELSE 1000
\* -hls_time of the session's transcoder, in seconds
HlsTime(type) ==
  IF type = "combined" THEN 1 ELSE 2

\* a variant that keeps the copies the live directory already has
CopyKeepingLive(src, live) ==
  IF src.playlist /= 0
    THEN [playlist |-> IF live.playlist /= 0 THEN live.playlist ELSE src.playlist,
          segments |-> [s \in SegmentNames |->
                          IF live.segments[s] /= 0 THEN live.segments[s]
                          ELSE src.segments[s]]]
    ELSE live

\* the body of updateLivePlaylist: the live directory after one tick
CopyToLive(src, live) ==
  IF src.playlist /= 0
    THEN [playlist |-> src.playlist,
          segments |-> [s \in SegmentNames |->
                          IF src.segments[s] /= 0 THEN src.segments[s]
                          ELSE live.segments[s]]]
    ELSE live

\* a session whose transcoder has just been spawned and whose timer is armed
InitPublish ==
  /\ pubType \in SessionTypes
  /\ pubSrc = EmptyDir
  /\ pubLive = EmptyDir
  /\ pubTicks = 0

PublishUnused ==
  /\ pubType = "producer"
  /\ pubSrc = EmptyDir
  /\ pubLive = EmptyDir
  /\ pubTicks = 0

\* the transcoder writes or rewrites a segment
FfmpegWritesSegment(s) ==
  /\ pubSrc.segments[s] < MaxVersions
  /\ pubSrc' = [pubSrc EXCEPT !.segments[s] = @ + 1]
  /\ UNCHANGED <<pubType, pubLive, pubTicks>>
  /\ UNCHANGED <<combinedVars, producerVars, gateVars, layoutVars, sdpVars, compVars, sigVars, liveVars>>

\* the transcoder deletes a segment that left the playlist (delete_segments)
FfmpegDeletesSegment(s) ==
  /\ pubSrc.segments[s] /= 0
  /\ pubSrc' = [pubSrc EXCEPT !.segments[s] = 0]
  /\ UNCHANGED <<pubType, pubLive, pubTicks>>
  /\ UNCHANGED <<combinedVars, producerVars, gateVars, layoutVars, sdpVars, compVars, sigVars, liveVars>>

\* the transcoder writes the playlist
FfmpegWritesPlaylist ==
  /\ pubSrc.playlist < MaxVersions
  /\ pubSrc' = [pubSrc EXCEPT !.playlist = @ + 1]
  /\ UNCHANGED <<pubType, pubLive, pubTicks>>
  /\ UNCHANGED <<combinedVars, producerVars, gateVars, layoutVars, sdpVars, compVars, sigVars, liveVars>>

\* one tick of updateLivePlaylist: the per-producer and composite timers copy,
\* the combined timer only touches the playlist's times
PublishTick ==
  /\ pubTicks < MaxTicks
  /\ pubTicks' = pubTicks + 1
  /\ pubLive' = IF pubType = "combined" THEN pubLive ELSE CopyToLive(pubSrc, pubLive)
  /\ UNCHANGED <<pubType, pubSrc>>
  /\ UNCHANGED <<combinedVars, producerVars, gateVars, layoutVars, sdpVars, compVars, sigVars, liveVars>>

PublishNext ==
  \/ \E s \in SegmentNames : FfmpegWritesSegment(s)
  \/ \E s \in SegmentNames : FfmpegDeletesSegment(s)
  \/ FfmpegWritesPlaylist
  \/ PublishTick

\* ======================= several per-producer sessions publishing to hls/live
LiveSessions == 1..MaxLiveSessions

\* what a file of session s holds after the transcoder's v-th write (0: no file)
Content(s, v) == s * (MaxVersions + 1) + v

\* the session a file came from (0: no file)
WriterOf(content) == content \div (MaxVersions + 1)

InitLive ==
  /\ lvState = [s \in LiveSessions |-> "none"]
  /\ lvSrc = [s \in LiveSessions |-> EmptyDir]
  /\ lvLive = EmptyDir

\* the directory hls/<sessionId> after the transcoder closed its n-th segment
\* and rewrote the playlist
AfterSegment(s, n) ==
  [playlist |-> Content(s, n),
   segments |-> [k \in SegmentNames |-> IF k <= n THEN Content(s, k) ELSE 0]]

\* setupHlsFfmpegBridge has spawned and armed the timer of the next session;
\* the sessions are numbered in the order in which they start
LiveSessionStarts(s) ==
  /\ lvState[s] = "none"
  /\ \A r \in LiveSessions : r < s => lvState[r] /= "none"
  /\ lvState' = [lvState EXCEPT ![s] = "alive"]
  /\ UNCHANGED <<lvSrc, lvLive>>
  /\ UNCHANGED <<combinedVars, producerVars, gateVars, layoutVars, sdpVars, pubVars, compVars, sigVars>>

\* the transcoder of session s closes its next segment and rewrites playlist.m3u8
LiveFfmpegWrites(s) ==
  /\ lvState[s] = "alive"
  /\ \E n \in SegmentNames :
       /\ lvSrc[s].playlist = IF n = 1 THEN 0 ELSE Content(s, n - 1)
       /\ lvSrc' = [lvSrc EXCEPT ![s] = AfterSegment(s, n)]
  /\ UNCHANGED <<lvState, lvLive>>
  /\ UNCHANGED <<combinedVars, producerVars, gateVars, layoutVars, sdpVars, pubVars, compVars, sigVars>>

\* the 2000 ms timer of session s fires: updateLivePlaylist copies into the
\* one directory hls/live that every session publishes to
LiveTick(s) ==
  /\ lvState[s] = "alive"
  /\ lvLive' = CopyToLive(lvSrc[s], lvLive)
  /\ UNCHANGED <<lvState, lvSrc>>
  /\ UNCHANGED <<combinedVars, producerVars, gateVars, layoutVars, sdpVars, pubVars, compVars, sigVars>>

\* the session is released: SIGTERM and clearInterval(updateLivePlaylist)
LiveSessionReleased(s) ==
  /\ lvState[s] = "alive"
  /\ lvState' = [lvState EXCEPT ![s] = "released"]
  /\ UNCHANGED <<lvSrc, lvLive>>
  /\ UNCHANGED <<combinedVars, producerVars, gateVars, layoutVars, sdpVars, pubVars, compVars, sigVars>>

LiveNext ==
  \/ \E s \in LiveSessions : LiveSessionStarts(s)
  \/ \E s \in LiveSessions : LiveFfmpegWrites(s)
  \/ \E s \in LiveSessions : LiveTick(s)
  \/ \E s \in LiveSessions : LiveSessionReleased(s)

\* ===================================================== compositeFFmpegBridge
(* The module keeps one global, compositeSession. Every function reads the    *)
(* global again after each await, so a session is what the global holds. A    *)
(* call of an exported function is numbered; the process, the publish timer   *)
(* and the relay transport/consumer a call creates carry the call's number.   *)
CompCalls == 1..MaxCalls
CompProducers == 1..MaxCompProducers
NoCompositeSession ==
  [set |-> FALSE, ffmpeg |-> 0, updateLivePlaylist |-> 0, isActive |-> FALSE,
   producers |-> [p \in CompProducers |-> 0]]
NewCompositeSession ==
  [set |-> TRUE, ffmpeg |-> 0, updateLivePlaylist |-> 0, isActive |-> TRUE,
   producers |-> [p \in CompProducers |-> 0]]
NoCall == [fn |-> "none", pc |-> "done", producer |-> 0]

\* the module's state as one record, for the functions below
CompState ==
  [session |-> compositeSession, procs |-> compProcs, timers |-> compTimers,
   relays |-> compRelays, registry |-> compRegistry]

\* ffmpeg.kill("SIGTERM") on a process reference
CompKill(procs, ffmpeg) ==
  IF ffmpeg /= 0 /\ procs[ffmpeg] = "alive" THEN [procs EXCEPT ![ffmpeg] = "killed"]
  ELSE procs

\* a variant that spawns without killing the session's process
restartWithoutKill(c, k) ==
  IF ~c.session.set THEN c
  ELSE [c EXCEPT !.procs = [c.procs EXCEPT ![k] = "alive"],
                 !.session.ffmpeg = k]

\* restartCompositeFFmpeg run by call k
restartCompositeFFmpeg(c, k) ==
  IF ~c.session.set THEN c
  ELSE [c EXCEPT !.procs = [CompKill(c.procs, c.session.ffmpeg) EXCEPT ![k] = "alive"],
                 !.session.ffmpeg = k]

\* cleanupCompositeSession
cleanupCompositeSession(c) ==
  IF ~c.session.set THEN c
  ELSE [c EXCEPT
          !.procs = CompKill(c.procs, c.session.ffmpeg),
          !.timers = IF c.session.updateLivePlaylist /= 0
                       THEN [c.timers EXCEPT ![c.session.updateLivePlaylist] = "cleared"]
                       ELSE c.timers,
          !.relays = [r \in CompCalls |->
                        IF \E p \in CompProducers : c.session.producers[p] = r
                          THEN "closed" ELSE c.relays[r]],
          !.session = NoCompositeSession]

\* setupCompositeHlsFfmpegBridge from the try block to await restartCompositeFFmpeg()
CreateSession(c, k) ==
  restartCompositeFFmpeg([c EXCEPT !.session = NewCompositeSession], k)

\* setupCompositeHlsFfmpegBridge after await restartCompositeFFmpeg(): the timer
\* is armed, then the session is written to, which throws into the catch when
\* the global is null
ArmAndRegister(c, k) ==
  LET armed == [c EXCEPT !.timers[k] = "set"]
  IN IF ~c.session.set THEN armed
     ELSE [armed EXCEPT !.session.updateLivePlaylist = k,
                        !.registry = [ffmpeg |-> c.session.ffmpeg,
                                      updateLivePlaylist |-> k]]

\* addProducerToComposite after its awaits: the relay exists, then the session
\* is written to, which throws into the catch when the global is null
AddToSession(c, k, p) ==
  LET made == [c EXCEPT !.relays[k] = "open"]
  IN IF ~c.session.set THEN made
     ELSE restartCompositeFFmpeg([made EXCEPT !.session.producers[p] = k], k)

\* removeProducerFromComposite
removeProducerFromComposite(c, k, p) ==
  IF ~c.session.set THEN c
  ELSE LET r == c.session.producers[p]
           closed == IF r /= 0
                       THEN [c EXCEPT !.relays[r] = "closed", !.session.producers[p] = 0]
                       ELSE c
       IN restartCompositeFFmpeg(closed, k)

CompCommit(c) ==
  /\ compositeSession' = c.session
  /\ compProcs' = c.procs
  /\ compTimers' = c.timers
  /\ compRelays' = c.relays
  /\ compRegistry' = c.registry

\* the module after it is loaded
InitComposite ==
  /\ compositeSession = NoCompositeSession
  /\ compProcs = [k \in CompCalls |-> "none"]
  /\ compTimers = [k \in CompCalls |-> "none"]
  /\ compRelays = [k \in CompCalls |-> "none"]
  /\ compRegistry = [ffmpeg |-> 0, updateLivePlaylist |-> 0]
  /\ compCalls = [k \in CompCalls |-> NoCall]

\* the number of the next call
NextCall(k) ==
  /\ compCalls[k] = NoCall
  /\ \A j \in 1..(k - 1) : compCalls[j] /= NoCall

\* setupCompositeHlsFfmpegBridge is called: with a session it cleans up and
\* awaits, without one it runs on to await restartCompositeFFmpeg()
SetupCalled(k) ==
  /\ NextCall(k)
  /\ IF compositeSession.set
       THEN /\ CompCommit(cleanupCompositeSession(CompState))
            /\ compCalls' = [compCalls EXCEPT ![k] = [fn |-> "setup", pc |-> "cleaned", producer |-> 0]]
       ELSE /\ CompCommit(CreateSession(CompState, k))
            /\ compCalls' = [compCalls EXCEPT ![k] = [fn |-> "setup", pc |-> "restarted", producer |-> 0]]
  /\ UNCHANGED <<combinedVars, producerVars, gateVars, layoutVars, sdpVars, pubVars, sigVars, liveVars>>

\* the call resumes after await cleanupCompositeSession()
SetupAfterCleanup(k) ==
  /\ compCalls[k].fn = "setup" /\ compCalls[k].pc = "cleaned"
  /\ CompCommit(CreateSession(CompState, k))
  /\ compCalls' = [compCalls EXCEPT ![k].pc = "restarted"]
  /\ UNCHANGED <<combinedVars, producerVars, gateVars, layoutVars, sdpVars, pubVars, sigVars, liveVars>>

\* the call resumes after await restartCompositeFFmpeg()
SetupAfterRestart(k) ==
  /\ compCalls[k].fn = "setup" /\ compCalls[k].pc = "restarted"
  /\ CompCommit(ArmAndRegister(CompState, k))
  /\ compCalls' = [compCalls EXCEPT ![k].pc = "done"]
  /\ UNCHANGED <<combinedVars, producerVars, gateVars, layoutVars, sdpVars, pubVars, sigVars, liveVars>>

\* addProducerToComposite is called: it returns without an active session,
\* else awaits the router
AddCalled(k, p) ==
  /\ NextCall(k)
  /\ compCalls' = [compCalls EXCEPT ![k] =
       [fn |-> "add",
        pc |-> IF compositeSession.set /\ compositeSession.isActive THEN "router" ELSE "done",
        producer |-> p]]
  /\ UNCHANGED <<compositeSession, compProcs, compTimers, compRelays, compRegistry>>
  /\ UNCHANGED <<combinedVars, producerVars, gateVars, layoutVars, sdpVars, pubVars, sigVars, liveVars>>

\* the call resumes after createPlainTransport, connect and consume
AddAfterRouter(k) ==
  /\ compCalls[k].fn = "add" /\ compCalls[k].pc = "router"
  /\ CompCommit(AddToSession(CompState, k, compCalls[k].producer))
  /\ compCalls' = [compCalls EXCEPT ![k].pc = "done"]
  /\ UNCHANGED <<combinedVars, producerVars, gateVars, layoutVars, sdpVars, pubVars, sigVars, liveVars>>

\* removeProducerFromComposite is called, directly or by transportclose
RemoveCalled(k, p) ==
  /\ NextCall(k)
  /\ CompCommit(removeProducerFromComposite(CompState, k, p))
  /\ compCalls' = [compCalls EXCEPT ![k] = [fn |-> "remove", pc |-> "done", producer |-> p]]
  /\ UNCHANGED <<combinedVars, producerVars, gateVars, layoutVars, sdpVars, pubVars, sigVars, liveVars>>

\* a transcoder process exits by itself: the exit handler only logs
CompositeFfmpegExit(k) ==
  /\ compProcs[k] = "alive"
  /\ compProcs' = [compProcs EXCEPT ![k] = "exited"]
  /\ UNCHANGED <<compositeSession, compTimers, compRelays, compRegistry, compCalls>>
  /\ UNCHANGED <<combinedVars, producerVars, gateVars, layoutVars, sdpVars, pubVars, sigVars, liveVars>>

CompositeNext ==
  \/ \E k \in CompCalls : SetupCalled(k)
  \/ \E k \in CompCalls : SetupAfterCleanup(k)
  \/ \E k \in CompCalls : SetupAfterRestart(k)
  \/ \E k \in CompCalls, p \in CompProducers : AddCalled(k, p)
  \/ \E k \in CompCalls : AddAfterRouter(k)
  \/ \E k \in CompCalls, p \in CompProducers : RemoveCalled(k, p)
  \/ \E k \in CompCalls : CompositeFfmpegExit(k)

\* the gate of SpecGate, not started
\* ============================ signaling/websocket.ts: transports and the maps
SigTransportIds == 1..MaxTransports
SigProducerIds == 1..MaxSigProducers
SigCallIds == 1..MaxInFlight

NoTransport == [client |-> 0, closed |-> FALSE]
NoSigProducer == [client |-> 0, kind |-> "none", transport |-> 0, closed |-> FALSE]
NoEntry == [present |-> FALSE, video |-> 0, audio |-> 0]
NoProduceCall == [client |-> 0, kind |-> "none", transport |-> 0]

InitSignaling ==
  /\ sigConn = [c \in Clients |-> "open"]
  /\ sigSend = [c \in Clients |-> 0]
  /\ sigTransport = [t \in SigTransportIds |-> NoTransport]
  /\ sigProducerObj = [p \in SigProducerIds |-> NoSigProducer]
  /\ sigProducers = {}
  /\ sigProducerToClient = [p \in SigProducerIds |-> 0]
  /\ sigProducerKinds = [p \in SigProducerIds |-> "none"]
  /\ sigClientProducers = [c \in Clients |-> NoEntry]
  /\ sigCalls = [k \in SigCallIds |-> NoProduceCall]
  /\ sigTimers = 0

(* The maps and objects the handlers of one connection work on, as one record, *)
(* so that a handler reads as the sequence of statements of the code.          *)
SigState ==
  [producers |-> sigProducers, producerToClient |-> sigProducerToClient,
   producerKinds |-> sigProducerKinds, clientProducers |-> sigClientProducers,
   objs |-> sigProducerObj, timers |-> sigTimers]

SigCommit(s) ==
  /\ sigProducers' = s.producers
  /\ sigProducerToClient' = s.producerToClient
  /\ sigProducerKinds' = s.producerKinds
  /\ sigClientProducers' = s.clientProducers
  /\ sigProducerObj' = s.objs
  /\ sigTimers' = s.timers

\* producers.set; producerToClient.set; producerKinds.set; the entry of the
\* client, made if it has none, with the slot of the kind set; the timer armed
\* for a video producer
Register(s, p, id, kind, t) ==
  LET entry == s.clientProducers[id]
  IN [s EXCEPT !.objs[p] = [client |-> id, kind |-> kind, transport |-> t, closed |-> FALSE],
               !.producers = @ \cup {p},
               !.producerToClient[p] = id,
               !.producerKinds[p] = kind,
               !.clientProducers[id] =
                  IF kind = "video" THEN [entry EXCEPT !.present = TRUE, !.video = p]
                  ELSE [entry EXCEPT !.present = TRUE, !.audio = p],
               !.timers = IF kind = "video" THEN @ + 1 ELSE @]

\* producer.on("transportclose") of producer p: the three deletes, then the
\* slot of the producer's kind is deleted from the client's entry, whichever
\* producer it holds
OnTransportClose(s, p) ==
  LET id == s.objs[p].client
      kind == s.objs[p].kind
      s1 == [s EXCEPT !.objs[p].closed = TRUE,
                      !.producers = @ \ {p},
                      !.producerToClient[p] = 0,
                      !.producerKinds[p] = "none"]
      entry == s1.clientProducers[id]
      e == IF kind = "video" THEN [entry EXCEPT !.video = 0] ELSE [entry EXCEPT !.audio = 0]
  IN IF ~entry.present THEN s1
     ELSE [s1 EXCEPT !.clientProducers[id] = IF e.video = 0 /\ e.audio = 0 THEN NoEntry ELSE e,
                     !.timers = IF kind = "video" THEN @ + 1 ELSE @]

RECURSIVE EmitTransportClose(_, _)
\* transport.close(): each producer of the transport emits transportclose
EmitTransportClose(s, ps) ==
  IF ps = <<>> THEN s
  ELSE EmitTransportClose(OnTransportClose(s, Head(ps)), Tail(ps))

\* the producers of transport t that are not closed, in the order of their creation
ProducersOn(t) ==
  SeqOfSet({p \in SigProducerIds : sigProducerObj[p].transport = t /\ ~sigProducerObj[p].closed})

RECURSIVE Sweep(_, _, _)
\* the loop over producerToClient.entries() of ws.on("close")
Sweep(s, id, ps) ==
  IF ps = <<>> THEN s
  ELSE LET p == Head(ps)
       IN Sweep([s EXCEPT !.objs[p].closed = IF p \in s.producers THEN TRUE ELSE @,
                          !.producers = @ \ {p},
                          !.producerToClient[p] = 0,
                          !.producerKinds[p] = "none"],
                id, Tail(ps))

FreeCalls == {k \in SigCallIds : sigCalls[k].client = 0}

\* case "createTransport" with type send, after its await: the new transport
\* replaces the one in clientTransports.send, which is not closed
CreateSendTransport(c) ==
  /\ sigConn[c] = "open"
  /\ \E t \in SigTransportIds :
       /\ sigTransport[t].client = 0
       /\ \A u \in SigTransportIds : u < t => sigTransport[u].client /= 0
       /\ sigTransport' = [sigTransport EXCEPT ![t] = [client |-> c, closed |-> FALSE]]
       /\ sigSend' = [sigSend EXCEPT ![c] = t]
  /\ UNCHANGED <<sigConn, sigProducerObj, sigProducers, sigProducerToClient, sigProducerKinds,
                 sigClientProducers, sigCalls, sigTimers>>
  /\ UNCHANGED <<combinedVars, producerVars, gateVars, layoutVars, sdpVars, pubVars, compVars, liveVars>>

\* case "produce" up to its await: clientTransports.send.produce(...) is called
ProduceCalled(c, kind) ==
  /\ sigConn[c] = "open"
  /\ sigSend[c] /= 0
  /\ FreeCalls /= {}
  /\ LET k == CHOOSE x \in FreeCalls : \A y \in FreeCalls : x <= y
     IN sigCalls' = [sigCalls EXCEPT ![k] = [client |-> c, kind |-> kind,
                                             transport |-> sigSend[c]]]
  /\ UNCHANGED <<sigConn, sigSend, sigTransport, sigProducerObj, sigProducers,
                 sigProducerToClient, sigProducerKinds, sigClientProducers, sigTimers>>
  /\ UNCHANGED <<combinedVars, producerVars, gateVars, layoutVars, sdpVars, pubVars, compVars, liveVars>>

\* case "produce" from its await on: the promise of produce() rejects and the
\* handler ends, or it resolves with the producer, which the handler enters
\* into the maps and into the entry of its client. The request went to the
\* worker when produce() was called; neither the close of the transport nor
\* the close of the connection withdraws it.
ProduceResumed(k, resolves) ==
  /\ sigCalls[k].client /= 0
  /\ sigCalls' = [sigCalls EXCEPT ![k] = NoProduceCall]
  /\ IF resolves
     THEN \E p \in SigProducerIds :
            /\ sigProducerObj[p].client = 0
            /\ \A q \in SigProducerIds : q < p => sigProducerObj[q].client /= 0
            /\ SigCommit(Register(SigState, p, sigCalls[k].client, sigCalls[k].kind,
                                  sigCalls[k].transport))
     ELSE SigCommit(SigState)
  /\ UNCHANGED <<sigConn, sigSend, sigTransport>>
  /\ UNCHANGED <<combinedVars, producerVars, gateVars, layoutVars, sdpVars, pubVars, compVars, liveVars>>

\* transport.on("dtlsstatechange") with state closed: transport.close(), which
\* makes the producers of the transport emit transportclose, and the transport
\* leaves clientTransports if it is still the one stored there
DtlsClosed(t) ==
  /\ sigTransport[t].client /= 0
  /\ ~sigTransport[t].closed
  /\ sigTransport' = [sigTransport EXCEPT ![t].closed = TRUE]
  /\ SigCommit(EmitTransportClose(SigState, ProducersOn(t)))
  /\ sigSend' = [c \in Clients |-> IF sigSend[c] = t THEN 0 ELSE sigSend[c]]
  /\ UNCHANGED <<sigConn, sigCalls>>
  /\ UNCHANGED <<combinedVars, producerVars, gateVars, layoutVars, sdpVars, pubVars, compVars, liveVars>>

\* ws.on("close"): the send transport stored for the client is closed, the
\* client leaves transports, hadVideoProducer is read, the producers that
\* producerToClient gives to the client are closed and deleted from the three
\* maps, the entry of the client is deleted and the timer is armed
SigDisconnect(c) ==
  /\ sigConn[c] = "open"
  /\ sigConn' = [sigConn EXCEPT ![c] = "gone"]
  /\ sigSend' = [sigSend EXCEPT ![c] = 0]
  /\ sigTransport' = IF sigSend[c] = 0 THEN sigTransport
                     ELSE [sigTransport EXCEPT ![sigSend[c]].closed = TRUE]
  /\ LET s1 == IF sigSend[c] = 0 \/ sigTransport[sigSend[c]].closed THEN SigState
               ELSE EmitTransportClose(SigState, ProducersOn(sigSend[c]))
         hadVideoProducer == s1.clientProducers[c].present /\ s1.clientProducers[c].video /= 0
         s2 == Sweep(s1, c, SeqOfSet({p \in SigProducerIds : s1.producerToClient[p] = c}))
     IN SigCommit([s2 EXCEPT !.clientProducers[c] = NoEntry,
                             !.timers = IF hadVideoProducer THEN @ + 1 ELSE @])
  /\ UNCHANGED sigCalls
  /\ UNCHANGED <<combinedVars, producerVars, gateVars, layoutVars, sdpVars, pubVars, compVars, liveVars>>

SignalingNext ==
  \/ \E c \in Clients : CreateSendTransport(c)
  \/ \E c \in Clients, kind \in {"video", "audio"} : ProduceCalled(c, kind)
  \/ \E k \in SigCallIds, resolves \in BOOLEAN : ProduceResumed(k, resolves)
  \/ \E t \in SigTransportIds : DtlsClosed(t)
  \/ \E c \in Clients : SigDisconnect(c)

GateUnused ==
  /\ gPc = "idle"
  /\ gElapsed = 0
  /\ gSettled = 0
  /\ gTimeout = RebuildGateTimeoutMs
  /\ gFiles = [i \in 1..NumGateFiles |-> NoFile]
  /\ gEverValid = [i \in 1..NumGateFiles |-> FALSE]

\* the server after start-up: no connection has produced, no bridge has run
Init == InitCombined /\ InitProducer /\ GateUnused /\ LayoutUnused /\ SdpUnused /\ PublishUnused
  /\ InitComposite /\ InitSignaling /\ InitLive

Spec == Init /\ [][Next]_vars

SpecProducer == Init /\ [][NextProducer]_vars

\* the gate about to be called on some set of descriptor files
InitGate == InitCombined /\ InitProducer /\ GateIdle /\ LayoutUnused /\ SdpUnused /\ PublishUnused
  /\ InitComposite /\ InitSignaling /\ InitLive

SpecGate == InitGate /\ [][GateNext]_vars

\* a rebuild about to build its filter graph and arguments
InitArgs == InitCombined /\ InitProducer /\ GateUnused /\ InitLayout /\ SdpUnused /\ PublishUnused
  /\ InitComposite /\ InitSignaling /\ InitLive

SpecLayout == InitArgs /\ [][LayoutNext]_vars

\* a session about to have its descriptors written
InitDescriptors == InitCombined /\ InitProducer /\ GateUnused /\ LayoutUnused /\ InitSdp /\ PublishUnused
  /\ InitComposite /\ InitSignaling /\ InitLive

SpecSdp == InitDescriptors /\ [][SdpNext]_vars

\* a session whose publish timer has just been armed
InitTimer == InitCombined /\ InitProducer /\ GateUnused /\ LayoutUnused /\ SdpUnused /\ InitPublish
  /\ InitComposite /\ InitSignaling /\ InitLive

SpecPublish == InitTimer /\ [][PublishNext]_vars

\* the server with the composite module loaded and nothing else under study
InitModule == Init

SpecComposite == InitModule /\ [][CompositeNext]_vars

\* the server listening, no connection having created a transport yet
InitSockets == Init

SpecSignaling == InitSockets /\ [][SignalingNext]_vars

\* the server with no per-producer session started yet
InitSessions == Init

SpecLive == InitSessions /\ [][LiveNext]_vars

\* the process of generation g exits after the SIGTERM it was sent
KilledExit(g) ==
  /\ gens[g].proc = "killed"
  /\ FfmpegExit(g)

(* The composite path as it runs when nothing outside the program fails: the  *)
(* router creates every transport and consumer, every producer has a usable   *)
(* codec, no close() throws, and a process exits only when it is killed. The  *)
(* timers of setTimeout and setInterval fire, a pending await resumes and a   *)
(* signalled process exits: these are the fairness conditions.                *)
NextEventual ==
  \/ \E c \in Clients, kind \in {"video", "audio"} : Produce(c, kind)
  \/ \E c \in Clients : SendTransportClosed(c)
  \/ \E c \in Clients : Disconnect(c)
  \/ UpdateCombinedStream(FALSE)
  \/ RetryRebuild(FALSE)
  \/ \E g \in GenIds : ResumeVideo(g, TRUE, TRUE)
  \/ \E g \in GenIds : ResumeAudio(g, TRUE)
  \/ \E g \in GenIds, elapsed \in BOOLEAN : GatePoll(g, elapsed)
  \/ \E g \in GenIds : KilledExit(g)
  \/ \E i \in 1..NumClients : DescriptorRemoved(i)

EventLoopRuns ==
  /\ WF_vars(UpdateCombinedStream(FALSE))
  /\ WF_vars(RetryRebuild(FALSE))
  /\ \A g \in GenIds :
       /\ WF_vars(ResumeVideo(g, TRUE, TRUE))
       /\ WF_vars(ResumeAudio(g, TRUE))
       /\ WF_vars(\E elapsed \in BOOLEAN : GatePoll(g, elapsed))
       /\ WF_vars(KilledExit(g))

InitEventual == Init

SpecEventual == InitEventual /\ [][NextEventual]_vars /\ EventLoopRuns

\* ==================================================================== claims
Running == {g \in GenIds : gens[g].proc = "running"}
Executing == {g \in GenIds : gens[g].st \in {"video", "audio", "gate"}}

\* C1: in the composite path at most one transcoder process is alive (spawned
\* and neither killed nor exited) at any time.
C1_AtMostOneCompositeProcess == Cardinality(Running) <= 1

PRunning(key) == {i \in ProducerIds : pSessions[i].key = key /\ pSessions[i].proc = "running"}

\* C2: in the per-producer registry at most one process per key is alive, and
\* every spawned process that is alive is the one the registry holds under its
\* key (none is left unreachable), whatever the interleaving of two calls.
C2_OneReachableProcessPerKey ==
  \A key \in ProducerIds :
    /\ Cardinality(PRunning(key)) <= 1
    /\ \A i \in PRunning(key) : producerResources[key] = i

\* a timer fired and called setupCombinedHlsStream in this step
RequestArrives ==
  \/ pendingUpdates' = pendingUpdates - 1
  \/ Len(pendingRetries') = Len(pendingRetries) - 1

\* C3: a rebuild request that arrives while the single-flight flag is set
\* returns without changing any state of the bridge (it is dropped, and no
\* request is queued for it), and at most one rebuild body executes at a time.
C3_BusyRequestIsDropped ==
  /\ [][(isUpdatingCombinedStream /\ RequestArrives) =>
          /\ UNCHANGED <<gens, isUpdatingCombinedStream, combinedHlsFfmpegProcess,
                         combinedResources, sdpFiles, signalVars>>
          /\ tdLog' = <<>>
          /\ Len(pendingRetries') <= Len(pendingRetries)
          /\ pendingUpdates' <= pendingUpdates]_vars
  /\ [](Cardinality(Executing) <= 1)

\* a request has just been dropped by a rebuild that is still executing
C3_Witness == lastOutcome = "dropped" /\ isUpdatingCombinedStream /\ Executing /= {}

\* C4: the flag is set exactly while a rebuild body is executing: it is set
\* before the first suspension point, and cleared on every exit path, so that
\* with no rebuild executing the flag is false and the next request is let in.
C4_FlagIffRebuildExecuting ==
  /\ isUpdatingCombinedStream <=> Executing /= {}
  /\ lastOutcome \in {"empty", "novideo", "error", "nocodec", "timeout", "retry-timeout",
                      "spawned"}
       => ~isUpdatingCombinedStream

\* a rebuild has just left through its catch block
C4_Witness == lastOutcome = "error" /\ ~isUpdatingCombinedStream

ClaimedTeardownOrder == <<"kill", "timer", "consumers", "transports">>

\* C5: a teardown of an existing session issues process kill, publish-timer
\* clear, consumer close, transport close, in this order (and, being part of the
\* step that starts the rebuild, before any new transport is created).
C5_TeardownOrder == tdLog /= <<>> => tdLog = ClaimedTeardownOrder

\* C6: a rebuild with an empty participant set leaves the composite Idle: no
\* composite process alive, no registry entry, registered consumers, transports
\* and publish timer released, and nothing created.
C6_EmptyRebuildLeavesIdle ==
  lastOutcome = "empty" =>
    /\ Running = {}
    /\ combinedResources = 0
    /\ combinedHlsFfmpegProcess = 0
    /\ Executing = {}

\* nothing is scheduled or in flight: no armed timer, no rebuild executing, no
\* exit event of a killed process outstanding
Quiescent ==
  /\ pendingUpdates = 0
  /\ pendingRetries = <<>>
  /\ ~isUpdatingCombinedStream
  /\ \A g \in GenIds : gens[g].proc /= "killed"

Idle ==
  /\ Running = {}
  /\ combinedResources = 0
  /\ \A g \in GenIds : ~gens[g].pub /\ gens[g].kf = 0

\* C7: after the sole contributor of an Active composite has disconnected and
\* no membership event followed, the coordinator ends Idle: once everything
\* scheduled has run, no composite process, registry entry, publish timer or
\* keyframe-request timer is left.
C7_SoleContributorLeavesThenIdle == (soleLeft = "armed" /\ Quiescent) => Idle

\* the gate of the rebuild that is at the gate times out in this step
GateTimesOut == lastOutcome' \in {"timeout", "retry-timeout"}

C9_GateRejectsWhenNeverValid ==
  /\ (\E i \in 1..NumGateFiles : ~gEverValid[i]) => gPc /= "resolved"
  /\ gPc = "rejected" => TimedOut(gElapsed, gTimeout)
  /\ gPc = "polling" => ~TimedOut(gElapsed, gTimeout)
  /\ gSettled <= 1
  /\ gPc \in {"resolved", "rejected"} <=> gSettled = 1

\* C10: the gate resolves only if every listed descriptor exists and declares a
\* non-zero width and a non-zero height.
C10_ResolvesOnlyIfSizesValid ==
  gPc = "resolved" => \A i \in 1..NumGateFiles : DeclaresSize(gFiles[i])

\* C11: every relay transport and consumer a composite rebuild has created
\* is, once that rebuild has returned (by any path), recorded in the registry
\* under the composite key or closed: none stays open and unreachable.
C11_NoOpenRelayOutsideRegistry ==
  \A g \in GenIds :
    (gens[g].st = "done" /\ (gens[g].tOpen > 0 \/ gens[g].cOpen > 0))
      => combinedResources = g

\* a rebuild is let in and finds a session registered under the composite key
TeardownOfSession ==
  ~isUpdatingCombinedStream /\ RequestArrives /\ combinedResources /= 0

\* C12: a teardown closes every consumer and transport of the session, clears
\* its publish timer and removes its registry entry, also when the close of one
\* of its resources throws.
C12_TeardownCompletesDespiteCloseFailure ==
  [][TeardownOfSession =>
       LET r == combinedResources
       IN /\ gens'[r].cOpen = 0
          /\ gens'[r].tOpen = 0
          /\ ~gens'[r].pub
          /\ combinedResources' /= r]_vars

\* C13: releasing a key that has been released changes nothing: a second
\* release of any key right after the first leaves the registry and every
\* session as the first left them (no second SIGTERM, nothing closed twice),
\* and the release of a key the registry does not hold changes nothing.
C13_ReleaseIdempotent ==
  \A key \in ProducerIds :
    /\ Release(Release(Registry, key), key) = Release(Registry, key)
    /\ producerResources[key] = 0 => Release(Registry, key) = Registry

\* a session over a video and an audio producer whose producers have both
\* emitted transportclose: the handler of the second found the key released
C13_Witness ==
  \E i \in ProducerIds :
    /\ pSessions[i].video /= 0 /\ pSessions[i].audio /= 0
    /\ pSessions[i].proc \in {"killed", "exited"}
    /\ pSessions[i].sigs = 1
    /\ ~pProducers[pSessions[i].video].open
    /\ ~pProducers[pSessions[i].audio].open
    /\ producerResources[pSessions[i].key] = 0

\* the rebuild that is awaiting a video input has another entry with a video
\* producer in its sessions map
OtherVideoInputs ==
  \E g \in GenIds :
    /\ gens[g].st = "video"
    /\ \E i \in DOMAIN gens[g].snap :
         i /= gens[g].idx /\ Sess(gens[g].snap[i]).video /= 0

\* C14: when no usable codec can be determined for one producer, only that
\* input is skipped: a rebuild that has other video inputs is not ended by it.
C14_NoCodecSkipsOnlyThatInput ==
  [][OtherVideoInputs => lastOutcome' /= "nocodec"]_vars

\* the process of generation g exits or fails in this step
Gone(g) ==
  /\ gens[g].proc \in {"running", "killed"}
  /\ gens'[g].proc \in {"exited", "none"}

\* C15: when a composite process exits or emits an error, the coordinator's
\* process reference is cleared and every keyframe-request timer of that
\* process generation is cancelled.
C15_ExitClearsReferenceAndKeyframeTimers ==
  [][\A g \in GenIds :
       Gone(g) => /\ combinedHlsFfmpegProcess' = 0
                  /\ gens'[g].kf = 0]_vars

\* a registered process that had a video input (and so a keyframe timer) has
\* exited
C15_Witness ==
  \E g \in GenIds :
    /\ gens[g].proc = "exited"
    /\ gens[g].nVideo >= 1
    /\ gens[g].kf = 0
    /\ combinedResources = g
    /\ combinedHlsFfmpegProcess = 0

\* C16: the exit and error handlers spawn no process and arm no rebuild, and
\* a process is spawned only by a step of a rebuild.
C16_OnlyRebuildsSpawn ==
  [][/\ (\E g \in GenIds : Gone(g)) =>
          /\ {h \in GenIds : gens'[h].proc = "running"} \subseteq Running
          /\ pendingUpdates' = pendingUpdates
          /\ pendingRetries' = pendingRetries
          /\ UNCHANGED isUpdatingCombinedStream
          /\ {h \in GenIds : gens'[h].st \in {"video", "audio", "gate"}} = Executing
     /\ (\E h \in GenIds : gens'[h].proc = "running" /\ gens[h].proc /= "running")
          => (Executing /= {} /\ lastOutcome' = "spawned")]_vars

\* the composite process has exited by itself and nothing has been started or
\* armed since
C16_Witness ==
  /\ \E g \in GenIds : gens[g].proc = "exited" /\ combinedResources = g
  /\ Running = {}
  /\ Executing = {}
  /\ pendingUpdates = 0
  /\ pendingRetries = <<>>

\* C17: every entry of clientProducers holds at most one video and at most
\* one audio producer (each slot names one producer of that kind or none, and
\* no client has two entries), and no entry with both slots empty remains
\* after an event has been handled.
C17_ClientProducersEntries ==
  /\ \A i, j \in DOMAIN cpKeys : cpKeys[i] = cpKeys[j] => i = j
  /\ \A c \in Clients :
       InMap(c) =>
         /\ sessionObj[c].video \in {0} \cup ProducerIds
         /\ sessionObj[c].audio \in {0} \cup ProducerIds
         /\ sessionObj[c].video /= 0 \/ sessionObj[c].audio /= 0

\* every producer has been created and has closed with its transport, the
\* clients are still connected, and no entry is left
C17_Witness ==
  /\ nextProducerId = MaxProducers + 1
  /\ \A p \in ProducerIds : producers[p] = NoProducer
  /\ \A c \in Clients : conn[c] = "open"
  /\ cpKeys = <<>>


\* the filters of a graph that write the label l
Defining(f, l) == SelectSeq(f, LAMBDA x : x.out = l)
\* the filters of a graph with the name op
Named(f, op) == SelectSeq(f, LAMBDA x : x.op = op)

C19_CellsTileOutputFrame ==
  (lPc \in {"called", "args"} /\ lV > 1) =>
    \A k \in 1..Len(lFilter) :
      lFilter[k].op = "scalepad" =>
        /\ lFilter[k].w = OutputWidth \div GridCols(lV)
        /\ lFilter[k].h = OutputHeight \div GridRows(lV)
        /\ OutputWidth - GridCols(lV) * lFilter[k].w \in 0..(GridCols(lV) - 1)
        /\ OutputHeight - GridRows(lV) * lFilter[k].h \in 0..(GridRows(lV) - 1)

\* the descriptors of the argument vector, in order: every token after a -i
DescriptorsOf(args) ==
  LET at == SeqOfSet({k \in 1..(Len(args) - 1) : args[k] = Word("-i")})
  IN [j \in 1..Len(at) |-> args[at[j] + 1]]
\* the graph given to -filter_complex
GraphOf(args) ==
  LET k == CHOOSE j \in 1..(Len(args) - 1) : args[j] = Word("-filter_complex")
  IN args[k + 1].f
\* how many times the argument vector maps the label l
Maps(args, l) ==
  Cardinality({k \in 1..(Len(args) - 1) : args[k] = Word("-map") /\ args[k + 1] = LabelWord(l)})
AudioEncoderWords == {"-c:a", "-b:a", "-ar", "-ac", "-async", "aac"}

\* C20: with V >= 1 video and A >= 0 audio inputs the argument vector has
\* exactly V video descriptors followed by A audio descriptors; if A > 0 it
\* has exactly one amix stage with inputs=A over the streams V..V+A-1 and maps
\* both [v] and [a]; if A = 0 it has no amix stage, no [a] mapping and no audio
\* encoder arguments. V = 3 gives a grid of 2 columns and 2 rows, V = 1 the
\* single-input scale/pad branch.
C20_ArgumentVectorShape ==
  lPc = "args" =>
    LET V == lV
        A == Cardinality(lAudio)
        d == DescriptorsOf(lArgs)
        g == GraphOf(lArgs)
        amix == Named(g, "amix")
    IN /\ Len(d) = V + A
       /\ \A j \in 1..Len(d) :
            /\ d[j].k = "path"
            /\ d[j].s = (IF j <= V THEN "input" ELSE "audio")
       /\ Maps(lArgs, Label("v", <<>>)) = 1
       /\ A > 0 =>
            /\ Len(amix) = 1
            /\ amix[1].w = A
            /\ amix[1].ins = [j \in 1..A |-> Label(":a", <<V + j - 1>>)]
            /\ amix[1].out = Label("a", <<>>)
            /\ Maps(lArgs, Label("a", <<>>)) = 1
            /\ \E k \in 1..(Len(lArgs) - 1) :
                 lArgs[k] = Word("-c:a") /\ lArgs[k + 1] = Word("aac")
       /\ A = 0 =>
            /\ Len(amix) = 0
            /\ Maps(lArgs, Label("a", <<>>)) = 0
            /\ \A k \in 1..Len(lArgs) : lArgs[k].s \notin AudioEncoderWords
       /\ V = 3 =>
            /\ Len(Named(g, "hstack")) = 1
            /\ Named(g, "hstack")[1].w = 2
            /\ Len(Named(g, "vstack")) = 1
            /\ Named(g, "vstack")[1].w = 2
            /\ Named(g, "vstack")[1].ins = <<Label("r", <<0>>), Label("v", <<2>>)>>
       /\ V = 1 =>
            /\ Len(Named(g, "scalepad")) = 1
            /\ Named(g, "scalepad")[1].out = Label("v", <<>>)
            /\ Named(g, "hstack") = <<>> /\ Named(g, "vstack") = <<>>
            /\ Named(g, "copy") = <<>>
C20_Witness ==
  /\ lPc = "args"
  /\ lV = 3
  /\ Cardinality(lAudio) = 2
  /\ Len(Named(lFilter, "amix")) = 1


\* reading a descriptor text back
HeaderLines == {SessionHeader[k] : k \in DOMAIN SessionHeader}
IsMediaLine(line) == line[1] \in {Lit("m=audio "), Lit("m=video ")}
LinesWith(text, prefix) == SelectSeq(text, LAMBDA line : line[1] = Lit(prefix))
\* the payload type is the last field of the media line
ReadPayloadType(text) ==
  LET m == SelectSeq(text, IsMediaLine)[1] IN m[Len(m)].n
\* the clock rate is the number after the first "/" of the rtpmap line
ReadClockRate(text) ==
  LET r == LinesWith(text, "a=rtpmap:")[1]
      slash == CHOOSE i \in DOMAIN r : r[i] = Lit("/") /\ \A j \in 1..(i - 1) : r[j] /= Lit("/")
  IN r[slash + 1].n
\* the session header once, at the start
HeaderOnceAtStart(text) ==
  /\ Len(text) >= Len(SessionHeader)
  /\ SubSeq(text, 1, Len(SessionHeader)) = SessionHeader
  /\ \A k \in (Len(SessionHeader) + 1)..Len(text) : text[k] \notin HeaderLines

\* C21: for any audio or video codec, payload type and port pair,
\* createSdpFile returns the session header once, then exactly one media block
\* in the order m=<kind> <rtpPort> RTP/AVP <pt>, a=rtpmap:<pt> <name>/<clock>
\* with /<channels> for audio, an optional a=fmtp, a=sendonly, a=rtcp:<port>;
\* the payload type and clock rate read back from the text are the inputs.
C21_OneMediaBlockInOrder ==
  sdpPc = "created" =>
    LET t == sdpText
        h == Len(SessionHeader)
        audio == sdpArg \in AudioCodecs
        pt == sdpArg.payloadType
    IN /\ HeaderOnceAtStart(t)
       /\ Len(SelectSeq(t, IsMediaLine)) = 1
       /\ Len(t) \in {h + 4, h + 5}
       /\ t[h + 1] = <<Lit(IF audio THEN "m=audio " ELSE "m=video "), Num(sdpPort),
                       Lit(" RTP/AVP "), Num(pt)>>
       /\ Len(t[h + 2]) = (IF audio THEN 8 ELSE 6)
       /\ SubSeq(t[h + 2], 1, 3) = <<Lit("a=rtpmap:"), Num(pt), Lit(" ")>>
       /\ t[h + 2][4].t = "chars"
       /\ SubSeq(t[h + 2], 5, 6) = <<Lit("/"), Num(sdpArg.clockRate)>>
       /\ audio => t[h + 2][7] = Lit("/") /\ t[h + 2][8].t = "num"
       /\ Len(t) = h + 5 => SubSeq(t[h + 3], 1, 2) = <<Lit("a=fmtp:"), Num(pt)>>
       /\ Len(LinesWith(t, "a=fmtp:")) = Len(t) - (h + 4)
       /\ t[Len(t) - 1] = <<Lit("a=sendonly")>>
       /\ t[Len(t)] = <<Lit("a=rtcp:"), Num(sdpPort + 1)>>
       /\ ReadPayloadType(t) = pt
       /\ ReadClockRate(t) = sdpArg.clockRate
C21_Witness ==
  /\ sdpPc = "created"
  /\ sdpArg \in AudioCodecs
  /\ Len(LinesWith(sdpText, "a=fmtp:")) = 1
  /\ sdpPort = 65534

\* the name the fixed table gives a MIME subtype
TableName(mimeType) ==
  LET sub == toLowerCase(SplitSecond(mimeType))
  IN IF sub = OpusWord THEN <<"O", "P", "U", "S">>
     ELSE IF sub = AacWord
       THEN <<"M", "P", "E", "G", "4", "-", "G", "E", "N", "E", "R", "I", "C">>
     ELSE IF sub = Vp8Word THEN <<"V", "P", "8">>
     ELSE IF sub = Vp9Word THEN <<"V", "P", "9">>
     ELSE IF sub = H264Word THEN <<"H", "2", "6", "4">>
     ELSE toUpperCase(SplitSecond(mimeType))

\* C22: createSdpFile names codecs by a fixed table (opus -> OPUS,
\* aac -> MPEG4-GENERIC, vp8 -> VP8, vp9 -> VP9, h264 -> H264) and every other
\* codec by its upper-cased MIME subtype.
C22_NameByTableOrUpperCase ==
  sdpPc = "created" =>
    LinesWith(sdpText, "a=rtpmap:")[1][4] = Chars(TableName(sdpArg.mimeType))

\* C23: createSdpFile emits an a=fmtp line exactly when the codec is H264
\* carrying packetization-mode or profile-level-id, or AAC carrying
\* profile-level-id; the line lists every such parameter the codec carries as
\* key=value joined by ';', and no other codec gets an fmtp line.
C23_FmtpListsCarriedParameters ==
  sdpPc = "created" =>
    LinesWith(sdpText, "a=fmtp:") =
      (IF CodecName(sdpArg) \in { <<"H", "2", "6", "4">>,
             <<"M", "P", "E", "G", "4", "-", "G", "E", "N", "E", "R", "I", "C">> }
         THEN FmtpLine(sdpArg.payloadType, EntryParams(sdpArg))
         ELSE <<>>)

\* C24: every descriptor file written as a transcoder input has the session
\* header (v=, o=, s=, c=, t=) exactly once, at its start, followed by one or
\* more media blocks, the per-producer file describing both a video and an
\* audio stream included.
C24_FileHasHeaderOnceAtStart ==
  sdpPc \in {"streamByCalls", "streamInline", "input", "audio"} =>
    /\ HeaderOnceAtStart(sdpText)
    /\ Len(SelectSeq(sdpText, IsMediaLine)) >= 1


C26_PeriodShorterThanSegment ==
  pubTicks > 0 => PublishPeriodMs(pubType) < 1000 * HlsTime(pubType)


\* C27: in compositeFFmpegBridge at most one composite session is active at any
\* time: after any interleaving of setupCompositeHlsFfmpegBridge,
\* addProducerToComposite and removeProducerFromComposite calls at most one
\* transcoder process and at most one publish timer of the module are alive.
C27_OneCompositeProcessAndTimer ==
  /\ Cardinality({k \in CompCalls : compProcs[k] = "alive"}) <= 1
  /\ Cardinality({k \in CompCalls : compTimers[k] = "set"}) <= 1


\* C28: in every composite rebuild that spawns a transcoder the events occur in
\* this order: all descriptors written, readiness gate succeeded, process
\* spawned, publish timer started, registry entry recorded; no process is
\* spawned in a rebuild whose gate did not succeed.
C28_RebuildEventOrder ==
  \A g \in GenIds :
    /\ gens[g].proc /= "none" =>
         gens[g].ev = [k \in 1..(gens[g].nVideo + gens[g].nAudio) |-> "sdp"]
                        \o <<"gate", "spawn", "timer", "registry">>
    /\ \A k \in DOMAIN gens[g].ev :
         gens[g].ev[k] = "spawn" => \E j \in 1..(k - 1) : gens[g].ev[j] = "gate"
    /\ gens[g].proc = "none" => \A k \in DOMAIN gens[g].ev : gens[g].ev[k] = "sdp"
C28_Witness ==
  \E g \in GenIds :
    /\ gens[g].proc = "running"
    /\ gens[g].nVideo = 1 /\ gens[g].nAudio = 1
    /\ combinedResources = g


RECURSIVE RowsExpanded(_, _)
\* the labels a stack of rows takes, each row label [rN] replaced by the inputs
\* of the hstack that writes it
RowsExpanded(labels, graph) ==
  IF labels = <<>> THEN <<>>
  ELSE (IF Head(labels).n = "r"
          THEN Defining(graph, Head(labels))[1].ins
          ELSE <<Head(labels)>>)
       \o RowsExpanded(Tail(labels), graph)
\* how many times the filters of a graph take the label l as an input
Consumed(graph, l) ==
  Cardinality({<<k, j>> \in (DOMAIN graph) \X (1..MaxInputs) :
                 j <= Len(graph[k].ins) /\ graph[k].ins[j] = l})

\* C29: for N > 1, buildFilterComplex uses columns = ceil(sqrt(N)) and
\* rows = ceil(N / columns); every scaled input label [v_i], 0 <= i < N, is
\* consumed exactly once, in index order row by row; a row with k >= 2 inputs
\* becomes one hstack of k inputs and a row with one input contributes its
\* label directly; with a single row the result is passed through without a
\* vstack, otherwise exactly one vstack takes exactly `rows` labels.
C29_GridRowsAndStack ==
  (lPc \in {"called", "args"} /\ lV > 1) =>
    LET N == lV
        cols == CeilSqrt(N)
        rows == CeilDiv(N, cols)
        inRow == [r \in 0..(rows - 1) |-> Min(cols, N - r * cols)]
        last == Defining(lFilter, Label("v", <<>>))[1]
        hstacks == Named(lFilter, "hstack")
    IN /\ \A i \in 0..(N - 1) : Consumed(lFilter, Label("v", <<i>>)) = 1
       /\ RowsExpanded(last.ins, lFilter) = [k \in 1..N |-> Label("v", <<k - 1>>)]
       /\ Len(last.ins) = rows
       /\ \A r \in 0..(rows - 1) :
            IF inRow[r] >= 2
              THEN /\ Len(Defining(lFilter, Label("r", <<r>>))) = 1
                   /\ Defining(lFilter, Label("r", <<r>>))[1].op = "hstack"
                   /\ Defining(lFilter, Label("r", <<r>>))[1].w = inRow[r]
                   /\ Defining(lFilter, Label("r", <<r>>))[1].ins =
                        [k \in 1..inRow[r] |-> Label("v", <<r * cols + k - 1>>)]
                   /\ last.ins[r + 1] = Label("r", <<r>>)
              ELSE /\ Defining(lFilter, Label("r", <<r>>)) = <<>>
                   /\ last.ins[r + 1] = Label("v", <<r * cols>>)
       /\ Len(hstacks) = Cardinality({r \in 0..(rows - 1) : inRow[r] >= 2})
       /\ IF rows = 1
            THEN last.op = "copy" /\ Named(lFilter, "vstack") = <<>>
            ELSE /\ Len(Named(lFilter, "vstack")) = 1
                 /\ last.op = "vstack"
                 /\ last.w = rows
                 /\ Named(lFilter, "copy") = <<>>
C29_Witness ==
  /\ lPc = "called"
  /\ lV = MaxInputs
  /\ Len(Named(lFilter, "hstack")) = 2
  /\ Len(Named(lFilter, "vstack")) = 1


\* the exit or error handler of generation g runs in this step
HandlerOf(g) ==
  /\ gens[g].proc \in {"running", "killed"}
  /\ gens'[g].proc \notin {"running", "killed"}

\* C30: an exit or error event from a composite process that has already been
\* replaced never clears the coordinator's reference to the currently running
\* process: after the handler has run the reference still names the most
\* recently spawned process if that process is alive.
C30_StaleExitKeepsReference ==
  [][\A g \in GenIds :
       (/\ HandlerOf(g)
        /\ combinedHlsFfmpegProcess \notin {0, g}
        /\ gens[combinedHlsFfmpegProcess].proc = "running")
       => combinedHlsFfmpegProcess' = combinedHlsFfmpegProcess]_vars

\* a client gains or loses a producer in this step
MembershipChange == cpKeys' /= cpKeys \/ sessionObj' /= sessionObj

\* a descriptor of the rebuild in progress disappears in this step
DescriptorGone ==
  \E i \in DOMAIN sdpFiles :
    i \in DOMAIN sdpFiles' /\ sdpFiles[i].exists /\ ~sdpFiles'[i].exists

\* the composite shows the clients that hold a video producer, or there is
\* none of either
ReflectsMembership ==
  IF Contributors = {} THEN Idle
  ELSE Active /\ gens[combinedResources].inputs = Contributors

\* C31: once membership changes (and losses of descriptor files) have stopped,
\* the composite eventually reflects the final membership and goes on doing so:
\* its video inputs are the clients that hold a video producer, or the
\* coordinator is Idle when there is none; also after a dropped request or a
\* readiness retry.
C31_EventuallyReflectsMembership ==
  <>[][~MembershipChange /\ ~DescriptorGone]_vars => <>[]ReflectsMembership

\* participants of the running composite that hold an audio producer
AudioHolders ==
  {c \in gens[combinedResources].inputs : InMap(c) /\ sessionObj[c].audio /= 0}

\* a participant of the running composite holds an audio producer that the
\* composite does not mix
AudioMissing == Active /\ gens[combinedResources].nAudio < Cardinality(AudioHolders)

\* a rebuild body is executing, or has just run to its end
RebuildRuns == isUpdatingCombinedStream \/ lastOutcome \notin {"none", "dropped"}

\* C32: when a participant of the running composite has added an audio
\* producer that the composite does not mix, a composite rebuild is eventually
\* run.
C32_AudioAddedLeadsToRebuild == AudioMissing ~> RebuildRuns

\* producerResources.has("combined-stream"): what /api/active-producers reports
\* as hasCombinedStream and /api/combined-stream-status as ffmpegRunning
hasCombinedStream == combinedResources /= 0

\* the coordinator's reference names a process that is alive
HoldsLiveProcess ==
  /\ combinedHlsFfmpegProcess /= 0
  /\ gens[combinedHlsFfmpegProcess].proc = "running"

\* C33: with no rebuild in progress, the registry holds an entry under
\* "combined-stream" exactly when the coordinator holds a live composite
\* process, so the status value is true exactly when a composite process runs.
C33_StatusIffProcessRunning ==
  ~isUpdatingCombinedStream =>
    /\ hasCombinedStream <=> HoldsLiveProcess
    /\ hasCombinedStream <=> Running /= {}

\* entry.videoProducer or entry.audioProducer of a client (0: not set)
SlotOf(entries, c, kind) ==
  IF kind = "video" THEN entries[c].video ELSE entries[c].audio

\* producer q closes in this step
Closes(q) == ~sigProducerObj[q].closed /\ sigProducerObj'[q].closed

\* C34: the close of a producer clears only its own reference: when the slot
\* of a client refers to a newer producer, which stays open, the close of an
\* older producer of that client and kind leaves the slot as it is.
C34_CloseClearsOwnReferenceOnly ==
  [][\A c \in Clients, kind \in {"video", "audio"} :
       LET p == SlotOf(sigClientProducers, c, kind)
       IN (/\ p /= 0
           /\ ~sigProducerObj'[p].closed
           /\ \E q \in SigProducerIds :
                /\ q < p
                /\ sigProducerObj[q].client = c
                /\ sigProducerObj[q].kind = kind
                /\ Closes(q))
          => SlotOf(sigClientProducers', c, kind) = p]_vars

\* the key sets of producerToClient and producerKinds
ToClientKeys == {p \in SigProducerIds : sigProducerToClient[p] /= 0}
KindsKeys == {p \in SigProducerIds : sigProducerKinds[p] /= "none"}

SameKeySets == sigProducers = ToClientKeys /\ ToClientKeys = KindsKeys

\* no map holds a producer of a client whose disconnect has been handled
GoneClientsHoldNothing ==
  \A c \in Clients :
    sigConn[c] = "gone" =>
      \A p \in sigProducers \cup ToClientKeys \cup KindsKeys : sigProducerObj[p].client /= c

\* C40: between event handlers the maps producers, producerToClient and
\* producerKinds have the same key set, and once the disconnect of a client has
\* been handled none of them holds a producer of that client.
C40_MapsAgreeAndForgetGoneClients == SameKeySets /\ GoneClientsHoldNothing

\* the session whose playlist is at hls/live/playlist.m3u8 (0: none)
LiveOwner(live) == WriterOf(live.playlist)

\* C35: the playlist at the live location is never overwritten by an older
\* session once a more recently started session has published: whenever the
\* playlist there passes from one session to another, it passes to the one
\* that started later.
C35_LivePlaylistNeverGoesBack ==
  [][(LiveOwner(lvLive) /= 0 /\ LiveOwner(lvLive') /= LiveOwner(lvLive))
       => LiveOwner(lvLive') > LiveOwner(lvLive)]_vars

\* the sessions of client c that are live: started for a producer of c, with
\* the transcoder running or the publish timer armed
LiveSessionsOf(c) ==
  {i \in ProducerIds : /\ pProducers[i].client = c
                       /\ pSessions[i].proc = "running" \/ pSessions[i].timer}

\* C36: in per-producer mode each client has at most one live session,
\* whatever the order of its produce events; so the session started for an
\* audio producer is released when the session for the video producer starts.
C36_OneLiveSessionPerClient ==
  \A c \in Clients : Cardinality(LiveSessionsOf(c)) <= 1

\* the scale filter of input i (from 1) in a filter graph
ScaleOf(graph, i) ==
  LET k == CHOOSE k \in DOMAIN graph :
             graph[k].op = "scalepad" /\ graph[k].ins = <<Label("vfps", <<i - 1>>)>>
  IN graph[k]

\* the filter graph of the process that generation g spawned (lines 381-382)
SpawnedGraph(g) ==
  buildFilterComplex(gens[g].nVideo, gens[g].nAudio, getLayoutConfig(gens[g].np), OutputFps)

\* C37: in every composite rebuild the cell size written into each video
\* descriptor's frame-size annotation is the cell size to which the filter
\* graph scales that input, also when a session of the snapshot lost its video
\* producer before it was visited.
C37_DescriptorCellIsGraphCell ==
  lastOutcome = "spawned" =>
    \A i \in DOMAIN sdpFiles :
      /\ sdpFiles[i].fsW = ScaleOf(SpawnedGraph(combinedResources), i).w
      /\ sdpFiles[i].fsH = ScaleOf(SpawnedGraph(combinedResources), i).h

\* the media block of a text createSdpFile returned: what follows the header
MediaBlock(text) == SubSeq(text, Len(SessionHeader) + 1, Len(text))

\* the media block the current createSdpFile builds for a codec and a port pair
CurrentBlock(codec, rtpPort) ==
  IF codec = NoCodec THEN <<>>
  ELSE MediaBlock(createSdpFile(codec, codec.payloadType, rtpPort, rtpPort + 1))

\* C38: for the same codec, payload type and port pair, the media block of the
\* legacy createSdpFile, and the media blocks written inline by
\* setupHlsFfmpegBridge and by restartCompositeFFmpeg, are the media block the
\* current createSdpFile builds.
C38_BuildersAgree ==
  /\ sdpPc = "legacy" => MediaBlock(sdpText) = CurrentBlock(sdpArg, sdpPort)
  /\ sdpPc \in {"streamInline", "composite"} =>
       \E audioRtpPort \in RtpPorts :
         sdpText = SessionHeader \o CurrentBlock(sdpVideo, sdpPort)
                                 \o CurrentBlock(sdpAudio, audioRtpPort)

\* no setupCompositeHlsFfmpegBridge call is between its start and its registry write
NoSetupInFlight ==
  \A k \in CompCalls : compCalls[k].fn = "setup" => compCalls[k].pc = "done"

\* C39: the process handle stored in the registry under "composite-stream" is
\* the composite session's current transcoder process, also after the restarts
\* of addProducerToComposite and removeProducerFromComposite.
C39_RegistryHoldsCurrentProcess ==
  (compositeSession.set /\ compRegistry.ffmpeg /= 0 /\ NoSetupInFlight) =>
    compRegistry.ffmpeg = compositeSession.ffmpeg

====
